---- MODULE Spec2Model ----
(***************************************************************************)
(* Flash-loan arbitrage: the on-ledger settlement of the Arbitrage         *)
(* contract (src/unnamed/part_000) and the off-ledger Execution            *)
(* Coordinator and scan loop of the bot (src/arbitrageBot.js).             *)
(*                                                                         *)
(* SettleSpec is the contract: one transaction at a time, taken statement  *)
(* by statement through executeArbitrage -> flashLoanSimple ->             *)
(* executeOperation -> executeSwap x2 -> repayment, with the ledger's      *)
(* revert restoring the state the transaction started from.                *)
(* BotSpec is the bot: the monitoring loop, the scan of the configured     *)
(* pairs, and executeArbitrage taken await by await.                       *)
(***************************************************************************)
EXTENDS Integers, Sequences, FiniteSets, TLC

(***************************************************************************)
(* Bounds of the settlement model.                                         *)
(***************************************************************************)
MaxAmount == 2           \* loan amounts and swap inputs range over 1..MaxAmount
MaxOut == MaxAmount + 2  \* a venue pays out 0..MaxOut; amountOutMin ranges over 0..MaxAmount

(***************************************************************************)
(* The contract's world: two tokens, the contract, the Aave pool, the      *)
(* venues the constructor wires, and the externally owned accounts.        *)
(***************************************************************************)
Tokens == {"A", "B"}

\* enum DEX, part_000:93-100
UNISWAP_V2 == 0
UNISWAP_V3 == 1
SUSHISWAP == 2
BALANCER == 3
CURVE == 4
DODO == 5
DEX == {UNISWAP_V2, UNISWAP_V3, SUSHISWAP, BALANCER, CURVE, DODO}

ZeroAddress == "0x0"
Owner == "owner"          \* the deployer; Ownable's owner
Other == "other"          \* any other externally owned account
POOL == "pool"
This == "this"            \* address(this)
Venues == {"uniV2", "uniV3", "sushi", "balancer"}
Holders == {This, POOL, Owner, Other} \cup Venues
Spenders == {POOL} \cup Venues

VARIABLES
    bal,              \* bal[t][h]: ERC20 balance of holder h in token t
    allowance,        \* allowance[t][s]: what the contract lets s spend of t
    profitRecipient,  \* part_000:91
    pcS,              \* position of the transaction in the settlement
    loan,             \* arguments of the running executeArbitrage/executeOperation
    amountReceived,   \* part_000:154
    finalAmount,      \* part_000:160
    pre,              \* ledger state the running transaction started from
    reason,           \* revert reason of the last reverted transaction
    trace             \* history: the steps the last transaction went through

settleVars == <<bal, allowance, profitRecipient, pcS, loan,
                amountReceived, finalAmount, pre, reason, trace>>

\* The bot's state, src/arbitrageBot.js
VARIABLES
    pcB,              \* where the bot is: the await it is about to make
    pairIdx,          \* index into TOKEN_PAIRS of the pair being scanned
    srcIdx,           \* index into SOURCES of the next quote to fetch
    prices,           \* the prices map of the pair, in insertion order
    best,             \* bestOpportunity of the pair
    quoted,           \* quotedOut1 and quotedOut2 of executeArbitrage
    swaps,            \* firstSwap and secondSwap of executeArbitrage
    gasEstimate,      \* gasEstimate of line 536, 0 before it answers
    gasLimit,         \* gasLimit of the estimate path, 0 before line 544
    txs,              \* submissions made by the running executeArbitrage call
    earlierInFlight,  \* a transaction of an earlier call is still pending
    result,           \* what the last executeArbitrage call returned
    log,              \* history: the remote calls of the executeArbitrage call
    executed,         \* history: pairs handed to executeArbitrage this cycle
    env               \* the environment variables that are set (process.env)

\* One application of a pure function of the bot: its arguments, its result
VARIABLES fnIn, fnOut

botVars == <<pcB, pairIdx, srcIdx, prices, best, quoted, swaps, gasEstimate, gasLimit, txs,
             earlierInFlight, result, log, executed>>
execVars == <<quoted, swaps, gasEstimate, gasLimit, txs, result, log>>
scanVars == <<pairIdx, srcIdx, prices, best, executed>>

fnVars == <<fnIn, fnOut>>

vars == <<settleVars, botVars, env, fnVars>>

NoLoan == [asset |-> "-", amount |-> 0, premium |-> 0, recipient |-> ZeroAddress,
           initiator |-> ZeroAddress]

\* struct SwapParams (part_000:102-113) as the caller may fill it: poolId,
\* i, j and extraData only reach venues that getRouterAddress rejects. The two
\* instructions travel in the callback's params and are read by executeSwap
\* alone, so each is drawn where executeSwap reads it.
FeeChoices(dex) == IF dex = UNISWAP_V3 THEN {0, 3000} ELSE {0}
SwapParams ==
    {p \in [dex : DEX, tokenIn : Tokens, tokenOut : Tokens, amountIn : 1..MaxAmount,
            amountOutMin : 0..MaxAmount, fee : {0, 3000}] :
        p.tokenIn # p.tokenOut /\ p.fee \in FeeChoices(p.dex)}

Terminal == {"Idle", "Settled", "Reverted"}

Add(b, t, h, n) == [b EXCEPT ![t][h] = @ + n]
Sub(b, t, h, n) == [b EXCEPT ![t][h] = @ - n]

\* getRouterAddress, part_000:363-369: "" stands for revert("Unsupported DEX")
getRouterAddress(dex) ==
    IF dex = UNISWAP_V2 THEN "uniV2"
    ELSE IF dex = UNISWAP_V3 THEN "uniV3"
    ELSE IF dex = SUSHISWAP THEN "sushi"
    ELSE IF dex = BALANCER THEN "balancer"
    ELSE ""

\* What a venue may answer to a swap call: Fail (the call reverts) or the
\* amount it pays out and returns.
Fail == -1
VenueAnswers == {Fail} \cup (0..MaxOut)

\* The external swap call (swapExactTokensForTokens, exactInputSingle,
\* Balancer swap): the venue pulls amountIn of tokenIn from the contract
\* against its allowance and pays o of tokenOut to address(this). The call
\* reverts when the venue says so, when the tokens coincide, or when a
\* transfer cannot be made.
VenueCallOk(b, al, venue, p, o) ==
    /\ o # Fail
    /\ p.tokenIn # p.tokenOut
    /\ b[p.tokenIn][This] >= p.amountIn
    /\ al[p.tokenIn][venue] >= p.amountIn
    /\ b[p.tokenOut][venue] >= o

VenueCallBal(b, venue, p, o) ==
    Add(Sub(Add(Sub(b, p.tokenIn, This, p.amountIn), p.tokenIn, venue, p.amountIn),
            p.tokenOut, venue, o), p.tokenOut, This, o)

Reverting(r, b, al) == [ok |-> FALSE, reason |-> r, bal |-> b, allowance |-> al, amountOut |-> 0]

ValidV3Fees == {100, 500, 3000, 10000}

\* No closing check at all
OutputCheckOff(amountOut, amountOutMin) == TRUE

\* the closing check of executeSwap, part_000:355-358
OutputCheck(amountOut, amountOutMin) == amountOut >= amountOutMin

\* An executeSwap whose catch blocks swallow the venue's failure and go on
\* with nothing received
executeSwapSwallow(b, al, p, o) ==
    IF p.dex = UNISWAP_V3 /\ p.fee \notin ValidV3Fees
    THEN Reverting("Invalid Uniswap V3 fee tier", b, al)
    ELSE IF getRouterAddress(p.dex) = ""
    THEN Reverting("Unsupported DEX", b, al)
    ELSE LET venue == getRouterAddress(p.dex)
             al1 == [al EXCEPT ![p.tokenIn][venue] = p.amountIn]
         IN  IF ~VenueCallOk(b, al1, venue, p, o)
             THEN [ok |-> TRUE, reason |-> "", bal |-> b, allowance |-> al1, amountOut |-> 0]
             ELSE IF ~OutputCheck(o, p.amountOutMin)
             THEN Reverting("Insufficient output amount", b, al1)
             ELSE [ok |-> TRUE, reason |-> "",
                   bal |-> VenueCallBal(b, venue, p, o),
                   allowance |-> [al1 EXCEPT ![p.tokenIn][venue] = @ - p.amountIn],
                   amountOut |-> o]

\* executeSwap, part_000:176-361, for the venue answer o
executeSwap(b, al, p, o) ==
    IF p.dex = UNISWAP_V3 /\ p.fee \notin ValidV3Fees
    THEN Reverting("Invalid Uniswap V3 fee tier", b, al)
    ELSE IF getRouterAddress(p.dex) = ""
    THEN Reverting("Unsupported DEX", b, al)
    ELSE LET venue == getRouterAddress(p.dex)
             al1 == [al EXCEPT ![p.tokenIn][venue] = p.amountIn]
         IN  IF ~VenueCallOk(b, al1, venue, p, o)
             THEN Reverting("swap failed", b, al1)
             ELSE IF ~OutputCheck(o, p.amountOutMin)
             THEN Reverting("Insufficient output amount", b, al1)
             ELSE [ok |-> TRUE, reason |-> "",
                   bal |-> VenueCallBal(b, venue, p, o),
                   allowance |-> [al1 EXCEPT ![p.tokenIn][venue] = @ - p.amountIn],
                   amountOut |-> o]

(***************************************************************************)
(* The ledger's revert: every effect of the running transaction is         *)
(* undone; only the reason and the history of the transaction remain.      *)
(***************************************************************************)
Snapshot == [bal |-> bal, allowance |-> allowance, profitRecipient |-> profitRecipient]

Revert(r, ev) ==
    /\ pcS' = "Reverted"
    /\ bal' = pre.bal
    /\ allowance' = pre.allowance
    /\ profitRecipient' = pre.profitRecipient
    /\ reason' = r
    /\ trace' = Append(trace, ev)
    /\ loan' = NoLoan
    /\ amountReceived' = 0
    /\ finalAmount' = 0
    /\ UNCHANGED pre

\* A transaction that reverts at its first statement: nothing was done.
RejectCall(r, ev) ==
    /\ pcS' = "Reverted"
    /\ reason' = r
    /\ trace' = <<ev>>
    /\ pre' = Snapshot
    /\ loan' = NoLoan
    /\ amountReceived' = 0
    /\ finalAmount' = 0
    /\ UNCHANGED <<bal, allowance, profitRecipient>>

\* A transaction can be sent when none is running. A behaviour ends with its
\* first settled flash loan: a reverted transaction leaves the ledger as it
\* was, so every settlement starts from a ledger of Init.
CanSend == pcS \in {"Idle", "Reverted"}

\* Arbitrage.executeArbitrage, part_000:371-381, up to the pool's callback:
\* onlyOwner, then flashLoanSimple credits amount of asset to the contract
\* and fixes the premium.
ExecuteArbitrageCall(caller, asset, amount, premium, recipient) ==
    /\ CanSend
    /\ premium < amount   \* the pool's premium is a fraction of the amount
    /\ IF caller # Owner
       THEN RejectCall("Ownable: caller is not the owner", "NotOwner")
       ELSE IF bal[asset][POOL] < amount
       THEN RejectCall("pool liquidity", "NoLiquidity")
       ELSE /\ pcS' = "Borrowed"
            /\ pre' = Snapshot
            /\ bal' = Add(Sub(bal, asset, POOL, amount), asset, This, amount)
            /\ loan' = [asset |-> asset, amount |-> amount, premium |-> premium,
                        recipient |-> recipient, initiator |-> This]
            /\ trace' = <<"Borrowed">>
            /\ reason' = ""
            /\ amountReceived' = 0
            /\ finalAmount' = 0
            /\ UNCHANGED <<allowance, profitRecipient>>
    /\ UNCHANGED <<botVars, env, fnVars>>

\* The pool's flashLoanSimple called by another account with the contract
\* as receiver: the pool credits the amount and calls executeOperation with
\* that account as initiator. The callback checks msg.sender only
\* (part_000:139) and never reads initiator (136), so it runs as it does
\* for the owner's executeArbitrage, with the caller's instructions and
\* recipient.
PoolFlashLoan(initiator, asset, amount, premium, recipient) ==
    /\ CanSend
    /\ initiator # This
    /\ premium < amount
    /\ bal[asset][POOL] >= amount
    /\ pcS' = "Borrowed"
    /\ pre' = Snapshot
    /\ bal' = Add(Sub(bal, asset, POOL, amount), asset, This, amount)
    /\ loan' = [asset |-> asset, amount |-> amount, premium |-> premium,
                recipient |-> recipient, initiator |-> initiator]
    /\ trace' = <<"Borrowed">>
    /\ reason' = ""
    /\ amountReceived' = 0
    /\ finalAmount' = 0
    /\ UNCHANGED <<allowance, profitRecipient>>
    /\ UNCHANGED <<botVars, env, fnVars>>

\* Arbitrage.executeOperation called by anyone but the pool, part_000:139
DirectCallback(caller) ==
    /\ CanSend
    /\ caller # POOL
    /\ RejectCall("Callback only from POOL", "NotPool")
    /\ UNCHANGED <<botVars, env, fnVars>>

\* A contract that ignores the recipient of the call
ActualRecipientDefault(recipient, default) == default

\* part_000:148
ActualRecipient(recipient, default) == IF recipient # ZeroAddress THEN recipient ELSE default

\* executeOperation, part_000:139-154: the sender check passes (the pool is
\* calling) and the first instruction is executed. The recipient resolved
\* at line 148 is read at line 170 only; profitRecipient cannot change in
\* between, so Distribute resolves it.
Leg1(p, o) ==
    /\ pcS = "Borrowed"
    /\ LET r == executeSwap(bal, allowance, p, o)
       IN  IF ~r.ok
           THEN Revert(r.reason, "Leg1Failed")
           ELSE /\ pcS' = "Leg1Swapped"
                /\ bal' = r.bal
                /\ allowance' = r.allowance
                /\ amountReceived' = r.amountOut
                /\ trace' = Append(trace, "Leg1Swapped")
                /\ UNCHANGED <<profitRecipient, loan, finalAmount, pre, reason>>
    /\ UNCHANGED <<botVars, env, fnVars>>

\* part_000:157
RequiredAmount(l) == l.amount + l.premium

\* A callback that can run the second instruction without the first
Leg2Early(p, o) ==
    /\ pcS \in {"Borrowed", "Leg1Swapped"}
    /\ LET r == executeSwap(bal, allowance, p, o)
       IN  IF ~r.ok
           THEN Revert(r.reason, "Leg2Failed")
           ELSE /\ pcS' = "Leg2Swapped"
                /\ bal' = r.bal
                /\ allowance' = r.allowance
                /\ finalAmount' = r.amountOut
                /\ trace' = Append(trace, "Leg2Swapped")
                /\ UNCHANGED <<profitRecipient, loan, amountReceived, pre, reason>>
    /\ UNCHANGED <<botVars, env, fnVars>>

\* executeOperation, part_000:159-160: the second instruction is executed.
Leg2(p, o) ==
    /\ pcS = "Leg1Swapped"
    /\ LET r == executeSwap(bal, allowance, p, o)
       IN  IF ~r.ok
           THEN Revert(r.reason, "Leg2Failed")
           ELSE /\ pcS' = "Leg2Swapped"
                /\ bal' = r.bal
                /\ allowance' = r.allowance
                /\ finalAmount' = r.amountOut
                /\ trace' = Append(trace, "Leg2Swapped")
                /\ UNCHANGED <<profitRecipient, loan, amountReceived, pre, reason>>
    /\ UNCHANGED <<botVars, env, fnVars>>

\* A check that lets a loan through that is one unit short
CoversRepaymentLax(final, required) == final + 1 >= required

\* part_000:161
CoversRepayment(final, required) == final >= required

\* executeOperation, part_000:161-164: the repayment check, then the
\* approval of the pool for amount + premium.
Repay ==
    /\ pcS = "Leg2Swapped"
    /\ IF ~CoversRepayment(finalAmount, RequiredAmount(loan))
       THEN Revert("Insufficient return amount", "Underwater")
       ELSE /\ pcS' = "Repaid"
            /\ allowance' = [allowance EXCEPT ![loan.asset][POOL] = RequiredAmount(loan)]
            /\ trace' = Append(trace, "Repaid")
            /\ UNCHANGED <<bal, profitRecipient, loan, amountReceived, finalAmount,
                           pre, reason>>
    /\ UNCHANGED <<botVars, env, fnVars>>

\* part_000:167-168
Profit(final, required) == IF final > required THEN final - required ELSE 0

\* executeOperation, part_000:166-173: the surplus goes to the recipient
\* (an ERC20 transfer, which reverts when the contract holds too little),
\* and the callback returns true.
Distribute ==
    /\ pcS = "Repaid"
    /\ LET profit == Profit(finalAmount, RequiredAmount(loan))
       IN  IF bal[loan.asset][This] < profit
           THEN Revert("ERC20: transfer amount exceeds balance", "TransferFailed")
           ELSE /\ pcS' = "ProfitDistributed"
                /\ bal' = Add(Sub(bal, loan.asset, This, profit), loan.asset,
                              ActualRecipient(loan.recipient, profitRecipient), profit)
                /\ trace' = Append(trace, "ProfitDistributed")
                /\ UNCHANGED <<allowance, profitRecipient, loan, amountReceived,
                               finalAmount, pre, reason>>
    /\ UNCHANGED <<botVars, env, fnVars>>

\* flashLoanSimple after the callback returned true (part_000:380): the
\* pool pulls amount + premium from the contract against the approval.
PoolCollect ==
    /\ pcS = "ProfitDistributed"
    /\ LET owed == RequiredAmount(loan)
       IN  IF bal[loan.asset][This] < owed \/ allowance[loan.asset][POOL] < owed
           THEN Revert("pool repayment", "RepaymentFailed")
           ELSE /\ pcS' = "Settled"
                /\ bal' = Add(Sub(bal, loan.asset, This, owed), loan.asset, POOL, owed)
                /\ allowance' = [allowance EXCEPT ![loan.asset][POOL] = @ - owed]
                /\ trace' = Append(trace, "Settled")
                /\ UNCHANGED <<profitRecipient, loan, amountReceived, finalAmount,
                               pre, reason>>
    /\ UNCHANGED <<botVars, env, fnVars>>

\* A setter that accepts the zero address
SetProfitRecipientUnchecked(caller, newRecipient) ==
    /\ CanSend
    /\ IF caller # Owner
       THEN RejectCall("Ownable: caller is not the owner", "NotOwner")
       ELSE /\ profitRecipient' = newRecipient
            /\ pcS' = "Idle"
            /\ pre' = Snapshot
            /\ trace' = <<"RecipientSet">>
            /\ reason' = ""
            /\ loan' = NoLoan
            /\ amountReceived' = 0
            /\ finalAmount' = 0
            /\ UNCHANGED <<bal, allowance>>
    /\ UNCHANGED <<botVars, env, fnVars>>

\* A setter without the onlyOwner modifier
SetProfitRecipientAnyone(caller, newRecipient) ==
    /\ CanSend
    /\ IF newRecipient = ZeroAddress
       THEN RejectCall("Cannot set zero address", "ZeroRecipient")
       ELSE /\ profitRecipient' = newRecipient
            /\ pcS' = "Idle"
            /\ pre' = Snapshot
            /\ trace' = <<"RecipientSet">>
            /\ reason' = ""
            /\ loan' = NoLoan
            /\ amountReceived' = 0
            /\ finalAmount' = 0
            /\ UNCHANGED <<bal, allowance>>
    /\ UNCHANGED <<botVars, env, fnVars>>

\* Arbitrage.setProfitRecipient, part_000:384-387
SetProfitRecipient(caller, newRecipient) ==
    /\ CanSend
    /\ IF caller # Owner
       THEN RejectCall("Ownable: caller is not the owner", "NotOwner")
       ELSE IF newRecipient = ZeroAddress
       THEN RejectCall("Cannot set zero address", "ZeroRecipient")
       ELSE /\ profitRecipient' = newRecipient
            /\ pcS' = "Idle"
            /\ pre' = Snapshot
            /\ trace' = <<"RecipientSet">>
            /\ reason' = ""
            /\ loan' = NoLoan
            /\ amountReceived' = 0
            /\ finalAmount' = 0
            /\ UNCHANGED <<bal, allowance>>
    /\ UNCHANGED <<botVars, env, fnVars>>

(***************************************************************************)
(* The contract after construction (part_000:115-130): no allowance, the   *)
(* deployer as profit recipient, no token held. The pool lends token A;    *)
(* every venue holds MaxOut of A and MaxAmount of B.                       *)
(***************************************************************************)
InitialBalance(t, h) ==
    IF h = POOL THEN (IF t = "A" THEN MaxAmount ELSE 0)
    ELSE IF h \in Venues THEN (IF t = "A" THEN MaxOut ELSE MaxAmount)
    ELSE 0

SettleInit ==
    /\ bal = [t \in Tokens |-> [h \in Holders |-> InitialBalance(t, h)]]
    /\ allowance = [t \in Tokens |-> [s \in Spenders |-> 0]]
    /\ profitRecipient = Owner
    /\ pcS = "Idle"
    /\ loan = NoLoan
    /\ amountReceived = 0
    /\ finalAmount = 0
    /\ pre = [bal |-> bal, allowance |-> allowance, profitRecipient |-> profitRecipient]
    /\ reason = ""
    /\ trace = <<>>

Callers == {Owner, Other}
Recipients == {ZeroAddress, Other}           \* the recipient argument
NewRecipients == {ZeroAddress, Owner, Other}  \* setProfitRecipient's argument

SettleNext ==
    \/ \E caller \in Callers, asset \in Tokens, amount \in 1..MaxAmount,
          premium \in 0..MaxAmount, recipient \in Recipients :
          ExecuteArbitrageCall(caller, asset, amount, premium, recipient)
    \/ \E caller \in Callers : DirectCallback(caller)
    \/ \E initiator \in {Other}, asset \in {"A"}, amount \in {1}, premium \in {0},
          recipient \in {Other} :
          PoolFlashLoan(initiator, asset, amount, premium, recipient)
    \/ \E p \in SwapParams, o \in VenueAnswers : Leg1(p, o)
    \/ \E p \in SwapParams, o \in VenueAnswers : Leg2(p, o)
    \/ Repay
    \/ Distribute
    \/ PoolCollect
    \/ \E caller \in Callers, r \in NewRecipients : SetProfitRecipient(caller, r)


(***************************************************************************)
(* The bot, src/arbitrageBot.js.                                           *)
(*                                                                         *)
(* Amounts are ethers BigNumbers in the code. The model keeps the code's   *)
(* integer arithmetic (mul, then div truncating toward zero) and scales    *)
(* the decimals of the configured pairs down so that every product stays   *)
(* below 2^31: tokenA has 6 decimals instead of 18, tokenB 3 or 1.         *)
(***************************************************************************)
MIN_PROFIT_BPS == 80          \* arbitrageBot.js:122
BASIS_POINTS == 10000         \* arbitrageBot.js:345, 351
PREMIUM_BPS == 9              \* arbitrageBot.js:345, 477
SLIPPAGE_KEEP == 97           \* arbitrageBot.js:473-474
LEG2_BUFFER == 95             \* arbitrageBot.js:511
GAS_BUFFER == 120             \* arbitrageBot.js:544
FIXED_GAS_LIMIT == 3000000    \* arbitrageBot.js:654
FEE_KEEP_PER_MILLE == 997     \* 1 - fee with fee = 0.003, arbitrageBot.js:48-65
PRICE_LOWER == 100            \* arbitrageBot.js:172, 189
PRICE_UPPER == 5000           \* arbitrageBot.js:179, 189

MaxDrift == 1   \* a live Uniswap V3 quote of leg 1 is 0..MaxDrift below the scan's

RECURSIVE Pow10(_)
Pow10(n) == IF n = 0 THEN 1 ELSE 10 * Pow10(n - 1)

\* BigNumber.div: the quotient truncated toward zero
BNDiv(a, b) == IF a >= 0 THEN a \div b ELSE -((-a) \div b)

\* TOKEN_PAIRS, arbitrageBot.js:70-92 (decimals scaled as said above), with
\* the quotes a venue may answer for the pair in this model: 0 stands for a
\* failed or empty quote.
TOKEN_PAIRS == <<
    [name |-> "WETH/WBTC", tokenA |-> "WETH", decimalsA |-> 6, decimalsB |-> 3, quotes |-> {0, 1012, 1025}],
    [name |-> "WETH/USDC", tokenA |-> "WETH", decimalsA |-> 6, decimalsB |-> 1, quotes |-> {0, 999, 1001, 1014}],
    [name |-> "WETH/DAI", tokenA |-> "WETH", decimalsA |-> 6, decimalsB |-> 1, quotes |-> {0, 1000, 1050}] >>

\* The quote sources in the order the scan asks them (arbitrageBot.js:214-269):
\* Uniswap V2, the Uniswap V3 fee tiers of DEX_CONFIGS, Sushiswap. A source is
\* the key of the prices map: the DEX number, or "<DEX>_<tier>" for V3.
SOURCES == <<
    [dex |-> UNISWAP_V2, tier |-> 0],
    [dex |-> UNISWAP_V3, tier |-> 100],
    [dex |-> UNISWAP_V3, tier |-> 500],
    [dex |-> UNISWAP_V3, tier |-> 3000],
    [dex |-> UNISWAP_V3, tier |-> 10000],
    [dex |-> SUSHISWAP, tier |-> 0] >>

\* A decimal string "units.fraction" with eighteen fraction digits, kept as
\* the units and the two halves of nine digits of the fraction.
Dec(u, h, l) == [units |-> u, hi |-> h, lo |-> l]
Whole(n) == Dec(n, 0, 0)
DecLess(a, b) ==
    \/ a.units < b.units
    \/ a.units = b.units /\ a.hi < b.hi
    \/ a.units = b.units /\ a.hi = b.hi /\ a.lo < b.lo

\* ethers.utils.formatUnits(price, decimals), arbitrageBot.js:169, 188, of an
\* amount the model holds as an integer of at most nine decimals
FormatUnits(price, decimals) ==
    Dec(price \div Pow10(decimals),
        (price % Pow10(decimals)) * Pow10(9 - decimals), 0)

\* parseFloat rounds the decimal to the nearest double. 100 and 5000 are
\* doubles and rounding is monotone, so the comparisons of isPriceValid see
\* the decimal itself except within half a unit in the last place of a bound,
\* where they see the bound: 2^-47 around 100 and 2^-41 around 5000, that is
\* 7105 and 454747 of the 10^18 parts of a unit (rounded down; no decimal of
\* eighteen digits lies on a tie).
HALF_ULP_LOWER == 7105
HALF_ULP_UPPER == 454747

RoundsTo(d, bound, halfUlp) ==
    \/ d.units = bound - 1 /\ d.hi = Pow10(9) - 1 /\ d.lo >= Pow10(9) - halfUlp
    \/ d.units = bound /\ d.hi = 0 /\ d.lo <= halfUlp

\* parseFloat, arbitrageBot.js:169, 188
ParseFloat(d) ==
    IF RoundsTo(d, PRICE_LOWER, HALF_ULP_LOWER) THEN Whole(PRICE_LOWER)
    ELSE IF RoundsTo(d, PRICE_UPPER, HALF_ULP_UPPER) THEN Whole(PRICE_UPPER)
    ELSE d

\* A filter that holds every pair to the bounds of WETH/DAI and WETH/USDC
PriceValidAllBounded(name, d) ==
    IF d = Whole(0) THEN FALSE
    ELSE LET priceValue == ParseFloat(d)
         IN  ~ (DecLess(priceValue, Whole(PRICE_LOWER))
                \/ DecLess(Whole(PRICE_UPPER), priceValue))

\* A filter whose bounds are exclusive
PriceValidExclusive(name, d) ==
    IF d = Whole(0) THEN FALSE
    ELSE IF name \in {"WETH/DAI", "WETH/USDC"}
    THEN LET priceValue == ParseFloat(d)
         IN  DecLess(Whole(PRICE_LOWER), priceValue)
                /\ DecLess(priceValue, Whole(PRICE_UPPER))
    ELSE TRUE

\* isPriceValid, arbitrageBot.js:159-199, on formatUnits(price, decimalsB)
PriceValid(name, d) ==
    IF d = Whole(0) THEN FALSE
    ELSE IF name \in {"WETH/DAI", "WETH/USDC"}
    THEN LET priceValue == ParseFloat(d)
         IN  ~ (DecLess(priceValue, Whole(PRICE_LOWER))
                \/ DecLess(Whole(PRICE_UPPER), priceValue))
    ELSE TRUE

\* isPriceValid on a quote of the scan
isPriceValid(pair, price) ==
    PriceValid(pair.name, FormatUnits(price, pair.decimalsB))

\* arbitrageBot.js:235: the 0.01% tier is skipped for WETH/DAI
Skipped(pair, source) ==
    pair.name = "WETH/DAI" /\ source.dex = UNISWAP_V3 /\ source.tier = 100

\* arbitrageBot.js:289-299: DEX number and fee tier of a key of the map
KeyFee(key) == IF key.dex = UNISWAP_V3 THEN key.tier ELSE 0

\* arbitrageBot.js:345, 477
FlashLoanPremium(amountIn) == (amountIn * PREMIUM_BPS) \div BASIS_POINTS

\* arbitrageBot.js:332-337, 465-467: tokenA per one tokenB from a forward quote
TokenAPerTokenB(pair, price2) ==
    (Pow10(pair.decimalsA) * Pow10(pair.decimalsB)) \div price2

\* arbitrageBot.js:312-318: the tokenB carried into the return leg.
\* amountAfterFee1 is computed from amountIn and fee1 and never read;
\* amountB is the source quote itself.
AmountB(amountIn, price1) ==
    LET amountAfterFee1 == (amountIn * FEE_KEEP_PER_MILLE) \div 1000
    IN  price1

\* A route whose second swap pays no fee
RouteProfitNoFee(pair, amountIn, price1, price2) ==
    LET finalAmt == (price1 * TokenAPerTokenB(pair, price2))
                        \div Pow10(pair.decimalsB)
    IN  finalAmt - amountIn - FlashLoanPremium(amountIn)

\* A route computed with the two quotes exchanged
RouteProfitSwapped(pair, amountIn, price1, price2) ==
    LET amountB == AmountB(amountIn, price2)
        amountBAfterFee == (amountB * FEE_KEEP_PER_MILLE) \div 1000
        finalAmt == (amountBAfterFee * TokenAPerTokenB(pair, price1))
                        \div Pow10(pair.decimalsB)
    IN  finalAmt - amountIn - FlashLoanPremium(amountIn)

\* One route of the scan, arbitrageBot.js:311-351
RouteProfit(pair, amountIn, price1, price2) ==
    LET amountB == AmountB(amountIn, price1)
        amountBAfterFee == (amountB * FEE_KEEP_PER_MILLE) \div 1000
        finalAmt == (amountBAfterFee * TokenAPerTokenB(pair, price2))
                        \div Pow10(pair.decimalsB)
    IN  finalAmt - amountIn - FlashLoanPremium(amountIn)

ProfitBps(profit, amountIn) == BNDiv(profit * BASIS_POINTS, amountIn)

NoOpp == [found |-> FALSE]

Opportunity(pair, amountIn, e1, e2) ==
    LET profit == RouteProfit(pair, amountIn, e1.price, e2.price)
    IN  [found |-> TRUE, pair |-> pair.name,
         sourceDex |-> e1.key.dex, targetDex |-> e2.key.dex,
         price1 |-> e1.price, price2 |-> e2.price, amountIn |-> amountIn,
         expectedProfit |-> profit, profitBps |-> ProfitBps(profit, amountIn),
         sourceFee |-> KeyFee(e1.key), targetFee |-> KeyFee(e2.key)]

\* A comparison that forgets the greatest profit seen so far
BetterLast(profit, maxProfit) == profit > 0

\* A comparison that takes the first route whatever its profit
BetterAny(profit, maxProfit) == profit > maxProfit \/ maxProfit = 0

\* A comparison that lets a later route of equal profit replace the best one
BetterOrEqual(profit, maxProfit) == profit > 0 /\ profit >= maxProfit

\* arbitrageBot.js:353-371: a route replaces the best one when its profit is
\* positive and greater than the greatest seen so far
Better(profit, maxProfit) == profit > 0 /\ profit > maxProfit

\* The route loop, arbitrageBot.js:280-380: entries i (outer) and j (inner)
\* of the map in insertion order, k counting the routes already looked at.
RECURSIVE RouteLoop(_, _, _, _, _)
RouteLoop(pair, amountIn, prs, k, acc) ==
    LET n == Len(prs)
    IN  IF k >= n * n THEN acc
        ELSE LET i == (k \div n) + 1
                 j == (k % n) + 1
             IN  IF i = j THEN RouteLoop(pair, amountIn, prs, k + 1, acc)
                 ELSE LET opp == Opportunity(pair, amountIn, prs[i], prs[j])
                      IN  IF Better(opp.expectedProfit, acc.maxProfit)
                          THEN RouteLoop(pair, amountIn, prs, k + 1,
                                         [best |-> opp, maxProfit |-> opp.expectedProfit])
                          ELSE RouteLoop(pair, amountIn, prs, k + 1, acc)

BestOpportunity(pair, amountIn, prs) ==
    RouteLoop(pair, amountIn, prs, 0, [best |-> NoOpp, maxProfit |-> 0]).best

\* An evaluation that takes a lone quote for an opportunity
EvaluatedAlone(pair, amountIn, prs) ==
    IF Len(prs) = 1
    THEN [Opportunity(pair, amountIn, prs[1], prs[1])
             EXCEPT !.expectedProfit = amountIn, !.profitBps = BASIS_POINTS]
    ELSE BestOpportunity(pair, amountIn, prs)

\* arbitrageBot.js:271-380: what the evaluation of a pair's map yields; with
\* fewer than two prices the routes are not looked at
Evaluated(pair, amountIn, prs) ==
    IF Len(prs) < 2 THEN NoOpp ELSE BestOpportunity(pair, amountIn, prs)

\* A gate that is exclusive at the threshold
ShouldExecuteStrict(opp) == opp.found /\ opp.profitBps > MIN_PROFIT_BPS

\* arbitrageBot.js:382: the gate in front of executeArbitrage
ShouldExecute(opp) == opp.found /\ opp.profitBps >= MIN_PROFIT_BPS


\* No quote has been asked of the quoter for leg 2
NoRequest == [tokenIn |-> "", tokenOut |-> "", fee |-> 0, amountIn |-> 0]
NoQuotes == [out1 |-> 0, out2 |-> 0, req2 |-> NoRequest]
NoSwaps == [built |-> FALSE]

Pair == TOKEN_PAIRS[pairIdx]
Quotes == UNION {TOKEN_PAIRS[i].quotes : i \in 1..Len(TOKEN_PAIRS)}
\* arbitrageBot.js:209: parseUnits('1', pair.decimalsA)
AmountIn(pair) == Pow10(pair.decimalsA)

\* arbitrageBot.js:29: the variables the bot cannot start without
REQUIRED_ENV == {"PRIVATE_KEY", "ARBITRAGE_CONTRACT_ADDRESS", "RPC_URL"}

\* No pure function is being applied
NoFn == [fn |-> "none"]
NoResult == [done |-> FALSE]
FnIdle == fnIn = NoFn /\ fnOut = NoResult

BotInit ==
    /\ pcB = "Boot"
    /\ env \in SUBSET REQUIRED_ENV
    /\ pairIdx = 1
    /\ srcIdx = 1
    /\ prices = <<>>
    /\ best = NoOpp
    /\ quoted = NoQuotes
    /\ swaps = NoSwaps
    /\ gasEstimate = 0
    /\ gasLimit = 0
    /\ txs = <<>>
    /\ earlierInFlight = FALSE
    /\ result = "none"
    /\ log = <<>>
    /\ executed = {}

\* A startup check that looks at the private key only
EnvCompleteKeyOnly(e) == "PRIVATE_KEY" \in e

\* arbitrageBot.js:29: none of the three variables is unset or empty
EnvComplete(e) == REQUIRED_ENV \subseteq e

\* The module's top level, arbitrageBot.js:28-32 and 759: with one of the
\* required variables missing the process exits; otherwise main runs up to
\* the monitoring loop.

Boot ==
    /\ pcB = "Boot"
    /\ pcB' = IF EnvComplete(env) THEN "Idle" ELSE "Exited"
    /\ UNCHANGED <<scanVars, execVars, earlierInFlight>>
    /\ UNCHANGED <<settleVars, env, fnVars>>

SLEEP_MS == 5000      \* arbitrageBot.js:737
BACKOFF_MS == 10000   \* arbitrageBot.js:742

\* How long main waits before the next cycle, arbitrageBot.js:735-743
WaitInterval(pc) == IF pc = "Backoff" THEN BACKOFF_MS ELSE SLEEP_MS

\* main, arbitrageBot.js:733-743: a scan cycle starts, at first, after the
\* 5 second wait, or after the 10 second wait that follows an error
StartScan ==
    /\ pcB \in {"Idle", "Sleep", "Backoff"}
    /\ pcB' = "Fetch"
    /\ pairIdx' = 1
    /\ srcIdx' = 1
    /\ prices' = <<>>
    /\ best' = NoOpp
    /\ executed' = {}
    /\ UNCHANGED <<execVars, earlierInFlight>>
    /\ UNCHANGED <<settleVars, env, fnVars>>

\* A scan that asks every other source only
NextSourceSkipping ==
    IF srcIdx + 1 < Len(SOURCES)
    THEN srcIdx' = srcIdx + 2 /\ pcB' = "Fetch"
    ELSE srcIdx' = srcIdx /\ pcB' = "Evaluate"

\* The scan goes on to the next source of the pair, or to the evaluation
NextSource ==
    IF srcIdx < Len(SOURCES)
    THEN srcIdx' = srcIdx + 1 /\ pcB' = "Fetch"
    ELSE srcIdx' = srcIdx /\ pcB' = "Evaluate"

\* arbitrageBot.js:234-238: the 0.01% tier of WETH/DAI is not queried
SkipTier ==
    /\ pcB = "Fetch"
    /\ Skipped(Pair, SOURCES[srcIdx])
    /\ NextSource
    /\ UNCHANGED <<pairIdx, prices, best, executed, execVars, earlierInFlight>>
    /\ UNCHANGED <<settleVars, env, fnVars>>

\* A monitoring loop that lets the error of a cycle end the process
ScanThrowsExit ==
    /\ pcB \in {"Fetch", "Evaluate"}
    /\ pcB' = "Exited"
    /\ prices' = <<>>
    /\ srcIdx' = 1
    /\ best' = NoOpp
    /\ UNCHANGED <<pairIdx, executed, execVars, earlierInFlight>>
    /\ UNCHANGED <<settleVars, env, fnVars>>

\* A statement of the pair loop outside its try blocks throws while the quotes
\* of a pair are collected or evaluated (arbitrageBot.js:205-388 hold no catch
\* but the quote helpers' and the routes'): the exception leaves
\* checkForArbitrageOpportunities, whose locals are lost, and is caught by
\* main, arbitrageBot.js:738-743.
ScanThrows ==
    /\ pcB \in {"Fetch", "Evaluate"}
    /\ pcB' = "Backoff"
    /\ prices' = <<>>
    /\ srcIdx' = 1
    /\ best' = NoOpp
    /\ UNCHANGED <<pairIdx, executed, execVars, earlierInFlight>>
    /\ UNCHANGED <<settleVars, env, fnVars>>

\* A scan whose map of quotes outlives the pair it was filled for
NextPairKeeping ==
    /\ prices' = prices
    /\ srcIdx' = 1
    /\ best' = NoOpp
    /\ IF pairIdx < Len(TOKEN_PAIRS)
       THEN pairIdx' = pairIdx + 1 /\ pcB' = "Fetch"
       ELSE pairIdx' = pairIdx /\ pcB' = "Sleep"

\* The end of a pair's iteration: the next pair starts with an empty map
\* (arbitrageBot.js:205-212), or the scan returns and main waits 5 seconds.
NextPair ==
    /\ prices' = <<>>
    /\ srcIdx' = 1
    /\ best' = NoOpp
    /\ IF pairIdx < Len(TOKEN_PAIRS)
       THEN pairIdx' = pairIdx + 1 /\ pcB' = "Fetch"
       ELSE pairIdx' = pairIdx /\ pcB' = "Sleep"

\* A scan that gives the pair up when one source has no quote
FetchAbort(q) ==
    /\ pcB = "Fetch"
    /\ ~Skipped(Pair, SOURCES[srcIdx])
    /\ q \in Pair.quotes
    /\ IF q = 0
       THEN NextPair
       ELSE /\ prices' = IF isPriceValid(Pair, q)
                         THEN Append(prices, [key |-> SOURCES[srcIdx], price |-> q])
                         ELSE prices
            /\ NextSource
            /\ UNCHANGED <<pairIdx, best>>
    /\ UNCHANGED <<executed, execVars, earlierInFlight>>
    /\ UNCHANGED <<settleVars, env, fnVars>>

\* One quote of the scan, arbitrageBot.js:214-269: getUniswapV2Price or
\* getUniswapV3Price answers q (0 when the call failed, lines 131-133 and
\* 153-155); a non-zero quote that passes isPriceValid enters the map.
Fetch(q) ==
    /\ pcB = "Fetch"
    /\ ~Skipped(Pair, SOURCES[srcIdx])
    /\ q \in Pair.quotes
    /\ prices' = IF q # 0 /\ isPriceValid(Pair, q)
                 THEN Append(prices, [key |-> SOURCES[srcIdx], price |-> q])
                 ELSE prices
    /\ NextSource
    /\ UNCHANGED <<pairIdx, best, executed, execVars, earlierInFlight>>
    /\ UNCHANGED <<settleVars, env, fnVars>>

\* arbitrageBot.js:271-397: with fewer than two prices the pair is left;
\* otherwise the routes are compared and the best one, if its profitBps
\* reaches MIN_PROFIT_BPS, is handed to executeArbitrage.
Evaluate ==
    /\ pcB = "Evaluate"
    /\ LET opp == Evaluated(Pair, AmountIn(Pair), prices)
       IN  IF ShouldExecute(opp)
           THEN /\ pcB' = "E_balance"
                /\ best' = opp
                /\ executed' = executed \cup {pairIdx}
                /\ quoted' = NoQuotes
                /\ swaps' = NoSwaps
                /\ gasEstimate' = 0
                /\ gasLimit' = 0
                /\ txs' = <<>>
                /\ result' = "none"
                /\ log' = <<>>
                /\ prices' = <<>>   \* the map is not read again
                /\ UNCHANGED <<pairIdx, srcIdx, earlierInFlight>>
           ELSE NextPair /\ UNCHANGED <<executed, execVars, earlierInFlight>>
    /\ UNCHANGED <<settleVars, env, fnVars>>

(***************************************************************************)
(* executeArbitrage, arbitrageBot.js:402-713, one action per await. Every  *)
(* remote call either answers or throws.                                   *)
(***************************************************************************)
Called(op) == log' = Append(log, op)
InLog(op) == \E k \in 1..Len(log) : log[k] = op

\* tx.wait() and, when it returns a receipt, the line "Transaction confirmed
\* in block" that follows it (arbitrageBot.js:573-574, 661-662)
CalledWait(outcome) ==
    log' = IF outcome = "receipt" THEN log \o <<"wait", "confirmed">>
           ELSE Append(log, "wait")

\* An executeArbitrage that lets its outcome escape as an exception, which
\* main catches
ReturnThrows(r) ==
    /\ pcB' = "Backoff"
    /\ result' = r

\* return false from one of the catch blocks, or return true
Return(r) ==
    /\ pcB' = "Returned"
    /\ result' = r

\* the catch of the estimate path, arbitrageBot.js:631-641
ToFallback == pcB' = "F_balance"

\* provider.getBalance, arbitrageBot.js:407
GetBalanceBefore(ok) ==
    /\ pcB = "E_balance"
    /\ Called("getBalance")
    /\ IF ok THEN pcB' = "E_recipient" /\ UNCHANGED result
             ELSE Return("false")
    /\ UNCHANGED <<scanVars, quoted, swaps, gasEstimate, gasLimit, txs, earlierInFlight>>
    /\ UNCHANGED <<settleVars, env, fnVars>>

\* arbitrageContract.profitRecipient(), arbitrageBot.js:423; every
\* configured tokenA is WETH, so lines 412-420 are skipped
GetRecipient(ok) ==
    /\ pcB = "E_recipient"
    /\ Called("profitRecipient")
    /\ IF ok THEN pcB' = "E_quote1" /\ UNCHANGED result
             ELSE Return("false")
    /\ UNCHANGED <<scanVars, quoted, swaps, gasEstimate, gasLimit, txs, earlierInFlight>>
    /\ UNCHANGED <<settleVars, env, fnVars>>

Threw == -1

\* By how much the quoter's answer for leg 1 of a Uniswap V3 source may lie
\* below the scan's price
Drifts == 0..MaxDrift

\* arbitrageBot.js:437-445: the source DEX is Uniswap V3 and the quoter
\* answers price1 - d or throws
Quote1Live(d) ==
    /\ pcB = "E_quote1"
    /\ best.sourceDex = UNISWAP_V3
    /\ d \in Drifts \cup {Threw}
    /\ Called("quote1")
    /\ IF d = Threw
       THEN Return("false") /\ UNCHANGED quoted
       ELSE /\ quoted' = [quoted EXCEPT !.out1 = best.price1 - d]
            /\ pcB' = "E_quote2"
            /\ UNCHANGED result
    /\ UNCHANGED <<scanVars, swaps, gasEstimate, gasLimit, txs, earlierInFlight>>
    /\ UNCHANGED <<settleVars, env, fnVars>>

\* arbitrageBot.js:446-450: any other source DEX keeps the scan's price1
Quote1Scan ==
    /\ pcB = "E_quote1"
    /\ best.sourceDex # UNISWAP_V3
    /\ quoted' = [quoted EXCEPT !.out1 = best.price1]
    /\ pcB' = "E_quote2"
    /\ UNCHANGED <<scanVars, swaps, gasEstimate, gasLimit, txs, earlierInFlight, result, log>>
    /\ UNCHANGED <<settleVars, env, fnVars>>

\* arbitrageBot.js:464-468: leg 2 from the scan's price2
AlgebraicOut2(pairRec, out1, price2) ==
    (out1 * TokenAPerTokenB(pairRec, price2)) \div Pow10(pairRec.decimalsB)

\* A slippage bound rounded up
WithSlippageUp(q) == (q * SLIPPAGE_KEEP + 99) \div 100

\* arbitrageBot.js:473-474
WithSlippage(q) == (q * SLIPPAGE_KEEP) \div 100

\* arbitrageBot.js:477-478
MinRepayment(amountIn) == amountIn + FlashLoanPremium(amountIn)

\* A gate that lets minOut2 = minRepayment through
GateRejectsStrict(amountOutMin2, minRepayment) == amountOutMin2 < minRepayment

\* arbitrageBot.js:481
GateRejects(amountOutMin2, minRepayment) == amountOutMin2 <= minRepayment

\* What the quoter may answer for leg 2 of a Uniswap V3 target: amounts on
\* both sides of the repayment gate, 1031856 the greatest the gate rejects
LiveQuotes2 == {1000000, 1031856, 1031857, 1050000}

\* A second leg that spends 5% more than the first leg's minimum
SecondAmountInAbove(min1) == (min1 * (200 - LEG2_BUFFER)) \div 100

\* arbitrageBot.js:511: secondSwap.amountIn
SecondAmountIn(min1) == (min1 * LEG2_BUFFER) \div 100

\* arbitrageBot.js:494-518
BuildSwaps(opp, min1, min2) ==
    [built |-> TRUE,
     first |-> [dex |-> opp.sourceDex, tokenIn |-> "A", tokenOut |-> "B",
                amountIn |-> opp.amountIn, amountOutMin |-> min1,
                fee |-> opp.sourceFee],
     second |-> [dex |-> opp.targetDex, tokenIn |-> "B", tokenOut |-> "A",
                 amountIn |-> SecondAmountIn(min1), amountOutMin |-> min2,
                 fee |-> opp.targetFee]]

\* arbitrageBot.js:472-531 for the leg-2 quote q: the slippage bounds, the
\* repayment gate and the two instructions
AfterQuote2(q, req) ==
    LET min1 == WithSlippage(quoted.out1)
        min2 == WithSlippage(q)
    IN  /\ quoted' = [quoted EXCEPT !.out2 = q, !.req2 = req]
        /\ IF GateRejects(min2, MinRepayment(best.amountIn))
           THEN Return("false") /\ UNCHANGED swaps
           ELSE /\ swaps' = BuildSwaps(best, min1, min2)
                /\ pcB' = "E_estimate"
                /\ UNCHANGED result

\* A leg-2 quote asked for the scan's leg-1 estimate
Quote2RequestStale(opp, out1) ==
    [tokenIn |-> "B", tokenOut |-> "A", fee |-> opp.targetFee, amountIn |-> opp.price1]

\* arbitrageBot.js:455-461: the arguments of quoteExactInputSingle for leg 2
Quote2Request(opp, out1) ==
    [tokenIn |-> "B", tokenOut |-> "A", fee |-> opp.targetFee, amountIn |-> out1]

\* arbitrageBot.js:454-462, then 472-531: the target DEX is Uniswap V3 and
\* the quoter answers q for the input quotedOut1, or throws
Quote2Live(q) ==
    /\ pcB = "E_quote2"
    /\ best.targetDex = UNISWAP_V3
    /\ q \in LiveQuotes2 \cup {Threw}
    /\ Called("quote2")
    /\ IF q = Threw
       THEN Return("false") /\ UNCHANGED <<quoted, swaps>>
       ELSE AfterQuote2(q, Quote2Request(best, quoted.out1))
    /\ UNCHANGED <<scanVars, gasEstimate, gasLimit, txs, earlierInFlight>>
    /\ UNCHANGED <<settleVars, env, fnVars>>

\* arbitrageBot.js:463-470, then 472-531: any other target DEX
Quote2Algebraic ==
    /\ pcB = "E_quote2"
    /\ best.targetDex # UNISWAP_V3
    /\ AfterQuote2(AlgebraicOut2(Pair, quoted.out1, best.price2), NoRequest)
    /\ UNCHANGED <<scanVars, gasEstimate, gasLimit, txs, earlierInFlight, log>>
    /\ UNCHANGED <<settleVars, env, fnVars>>

\* What estimateGas may answer
GasEstimates == {200001, 250000}

\* A buffer of 10% instead of 20%
BufferedGasTen(estimate) == (estimate * 110) \div 100

\* arbitrageBot.js:544
BufferedGas(estimate) == (estimate * GAS_BUFFER) \div 100

\* arbitrageContract.estimateGas.executeArbitrage, arbitrageBot.js:536-545
EstimateGas(g) ==
    /\ pcB = "E_estimate"
    /\ g \in GasEstimates \cup {Threw}
    /\ Called("estimateGas")
    /\ IF g = Threw
       THEN ToFallback /\ UNCHANGED <<gasEstimate, gasLimit>>
       ELSE /\ gasEstimate' = g
            /\ gasLimit' = BufferedGas(g)
            /\ pcB' = "E_gasPrice"
    /\ UNCHANGED <<scanVars, quoted, swaps, txs, earlierInFlight, result>>
    /\ UNCHANGED <<settleVars, env, fnVars>>

\* provider.getGasPrice, arbitrageBot.js:548
GetGasPrice(ok) ==
    /\ pcB = "E_gasPrice"
    /\ Called("getGasPrice")
    /\ IF ok THEN pcB' = "E_submit" ELSE ToFallback
    /\ UNCHANGED <<scanVars, quoted, swaps, gasEstimate, gasLimit, txs, earlierInFlight, result>>
    /\ UNCHANGED <<settleVars, env, fnVars>>

\* A submission: the signer sends the transaction, which is then pending,
\* or the call throws and nothing was sent.
Submission(gas) == [gasLimit |-> gas, status |-> "pending", gain |-> 0]
Rejected(gas) == [gasLimit |-> gas, status |-> "rejected", gain |-> 0]

\* arbitrageContract.executeArbitrage with the buffered estimate,
\* arbitrageBot.js:558-568
Submit(ok) ==
    /\ pcB = "E_submit"
    /\ Called("submit")
    /\ IF ok
       THEN txs' = Append(txs, Submission(gasLimit)) /\ pcB' = "E_wait"
       ELSE txs' = Append(txs, Rejected(gasLimit)) /\ ToFallback
    /\ UNCHANGED <<scanVars, quoted, swaps, gasEstimate, gasLimit, earlierInFlight, result>>
    /\ UNCHANGED <<settleVars, env, fnVars>>

\* What tx.wait() may do: return the receipt of the confirmed transaction,
\* throw because the transaction failed on the ledger, or throw because the
\* request itself failed, the transaction still pending.
WaitOutcomes == {"receipt", "txFailed", "transportError"}

MaxGain == 1   \* a confirmed execution leaves the wallet 0..MaxGain of tokenA richer

Gains == 0..MaxGain

\* The transaction after tx.wait(): gain is what its confirmation has added
\* to the wallet's tokenA balance
Awaited(outcome, gain) ==
    [txs EXCEPT ![Len(txs)].status =
                    IF outcome = "receipt" THEN "confirmed"
                    ELSE IF outcome = "txFailed" THEN "failed"
                    ELSE @,
                ![Len(txs)].gain = IF outcome = "receipt" THEN gain ELSE @]

\* arbitrageBot.js:410 and 592: the address tokenA is compared with
WETH_ADDRESS == "WETH"

\* The wallet's tokenA balance before the execution, and after it
WalletTokenBefore == 0
WalletTokenAfter == WalletTokenBefore + txs[Len(txs)].gain

\* tokenBalanceBefore and tokenBalanceAfter, arbitrageBot.js:410-420,
\* 591-599, 676-684: the balance is read unless tokenA is WETH
TokenBalance(pair, balance) ==
    IF pair.tokenA # WETH_ADDRESS THEN balance ELSE 0

\* The result lines of the confirmed execution, arbitrageBot.js:618-628
Report(pair) ==
    IF TokenBalance(pair, WalletTokenAfter) > TokenBalance(pair, WalletTokenBefore)
    THEN <<"actualProfit">>
    ELSE <<"noProfitDetected">>

\* The result lines of the confirmed fallback, arbitrageBot.js:676-695,
\* written only when tokenA is not WETH
FallbackReport(pair) ==
    IF pair.tokenA # WETH_ADDRESS
    THEN IF TokenBalance(pair, WalletTokenAfter) - TokenBalance(pair, WalletTokenBefore) > 0
         THEN <<"actualProfit">>
         ELSE <<"noProfitDetected">>
    ELSE <<>>

\* tx.wait(), arbitrageBot.js:573
Wait(outcome, gain) ==
    /\ pcB = "E_wait"
    /\ outcome \in WaitOutcomes
    /\ gain \in Gains
    /\ outcome # "receipt" => gain = 0
    /\ CalledWait(outcome)
    /\ txs' = Awaited(outcome, gain)
    /\ IF outcome = "receipt" THEN pcB' = "E_balanceAfter" ELSE ToFallback
    /\ UNCHANGED <<scanVars, quoted, swaps, gasEstimate, gasLimit, earlierInFlight, result>>
    /\ UNCHANGED <<settleVars, env, fnVars>>

\* provider.getBalance after the confirmation, arbitrageBot.js:587, and the
\* report up to return true at line 630 (tokenA is WETH: 592-604 skipped)
GetBalanceAfter(ok) ==
    /\ pcB = "E_balanceAfter"
    /\ IF ok THEN /\ log' = Append(log, "getBalance") \o Report(Pair)
                  /\ Return("true")
             ELSE /\ Called("getBalance")
                  /\ ToFallback
                  /\ UNCHANGED result
    /\ UNCHANGED <<scanVars, quoted, swaps, gasEstimate, gasLimit, txs, earlierInFlight>>
    /\ UNCHANGED <<settleVars, env, fnVars>>

\* The fallback, arbitrageBot.js:642-644: provider.getBalance
FallbackBalance(ok) ==
    /\ pcB = "F_balance"
    /\ Called("getBalance")
    /\ IF ok THEN pcB' = "F_submit" /\ UNCHANGED result
             ELSE Return("false")
    /\ UNCHANGED <<scanVars, quoted, swaps, gasEstimate, gasLimit, txs, earlierInFlight>>
    /\ UNCHANGED <<settleVars, env, fnVars>>

\* A fallback that submits again when its submission is refused
FallbackSubmitRetry(ok) ==
    /\ pcB = "F_submit"
    /\ Called("submit")
    /\ IF ok
       THEN /\ txs' = Append(txs, Submission(FIXED_GAS_LIMIT))
            /\ pcB' = "F_wait"
            /\ UNCHANGED result
       ELSE /\ txs' = Append(txs, Rejected(FIXED_GAS_LIMIT))
            /\ IF Len(txs) < 3 THEN pcB' = "F_submit" /\ UNCHANGED result
                               ELSE Return("false")
    /\ UNCHANGED <<scanVars, quoted, swaps, gasEstimate, gasLimit, earlierInFlight>>
    /\ UNCHANGED <<settleVars, env, fnVars>>

\* arbitrageContract.executeArbitrage with the fixed gas limit,
\* arbitrageBot.js:647-656
FallbackSubmit(ok) ==
    /\ pcB = "F_submit"
    /\ Called("submit")
    /\ IF ok
       THEN /\ txs' = Append(txs, Submission(FIXED_GAS_LIMIT))
            /\ pcB' = "F_wait"
            /\ UNCHANGED result
       ELSE /\ txs' = Append(txs, Rejected(FIXED_GAS_LIMIT))
            /\ Return("false")
    /\ UNCHANGED <<scanVars, quoted, swaps, gasEstimate, gasLimit, earlierInFlight>>
    /\ UNCHANGED <<settleVars, env, fnVars>>

\* tx.wait() of the fallback, arbitrageBot.js:661
FallbackWait(outcome, gain) ==
    /\ pcB = "F_wait"
    /\ outcome \in WaitOutcomes
    /\ gain \in Gains
    /\ outcome # "receipt" => gain = 0
    /\ CalledWait(outcome)
    /\ txs' = Awaited(outcome, gain)
    /\ IF outcome = "receipt" THEN pcB' = "F_balanceAfter" /\ UNCHANGED result
                              ELSE Return("false")
    /\ UNCHANGED <<scanVars, quoted, swaps, gasEstimate, gasLimit, earlierInFlight>>
    /\ UNCHANGED <<settleVars, env, fnVars>>

\* provider.getBalance of the fallback, arbitrageBot.js:671, up to return
\* true at line 698
FallbackBalanceAfter(ok) ==
    /\ pcB = "F_balanceAfter"
    /\ IF ok THEN /\ log' = Append(log, "getBalance") \o FallbackReport(Pair)
                  /\ Return("true")
             ELSE /\ Called("getBalance")
                  /\ Return("false")
    /\ UNCHANGED <<scanVars, quoted, swaps, gasEstimate, gasLimit, txs, earlierInFlight>>
    /\ UNCHANGED <<settleVars, env, fnVars>>

IsPending(t) == t.status = "pending"
SomePending(ts) == \E i \in 1..Len(ts) : IsPending(ts[i])

\* executeArbitrage has returned (arbitrageBot.js:390): the loop goes on to
\* the next pair. A transaction left pending stays in flight.
\* A scan that looks at the same pair again after executeArbitrage returned
ContinueSamePair ==
    /\ pcB = "Returned"
    /\ pcB' = "Fetch"
    /\ prices' = <<>>
    /\ srcIdx' = 1
    /\ best' = NoOpp
    /\ pairIdx' = pairIdx
    /\ earlierInFlight' = (earlierInFlight \/ SomePending(txs))
    /\ quoted' = NoQuotes
    /\ swaps' = NoSwaps
    /\ gasEstimate' = 0
    /\ gasLimit' = 0
    /\ txs' = <<>>
    /\ log' = <<>>
    /\ result' = "none"
    /\ UNCHANGED executed
    /\ UNCHANGED <<settleVars, env, fnVars>>

Continue ==
    /\ pcB = "Returned"
    /\ NextPair
    /\ earlierInFlight' = (earlierInFlight \/ SomePending(txs))
    /\ quoted' = NoQuotes
    /\ swaps' = NoSwaps
    /\ gasEstimate' = 0
    /\ gasLimit' = 0
    /\ txs' = <<>>
    /\ log' = <<>>
    /\ result' = "none"
    /\ UNCHANGED executed
    /\ UNCHANGED <<settleVars, env, fnVars>>

\* The ledger: a pending transaction that nobody waits for confirms or fails.
Resolve(i, status) ==
    /\ i \in 1..Len(txs)
    /\ IsPending(txs[i])
    /\ ~ (pcB \in {"E_wait", "F_wait"} /\ i = Len(txs))
    /\ status \in {"confirmed", "failed"}
    /\ txs' = [txs EXCEPT ![i].status = status]
    /\ UNCHANGED <<pcB, scanVars, quoted, swaps, gasEstimate, gasLimit, earlierInFlight, result, log>>
    /\ UNCHANGED <<settleVars, env, fnVars>>

ResolveEarlier ==
    /\ earlierInFlight
    /\ earlierInFlight' = FALSE
    /\ UNCHANGED <<pcB, scanVars, execVars>>
    /\ UNCHANGED <<settleVars, env, fnVars>>

BotNext ==
    \/ Boot
    \/ StartScan
    \/ SkipTier
    \/ ScanThrows
    \/ \E q \in Quotes : Fetch(q)
    \/ Evaluate
    \/ \E ok \in BOOLEAN : GetBalanceBefore(ok)
    \/ \E ok \in BOOLEAN : GetRecipient(ok)
    \/ \E d \in Drifts \cup {Threw} : Quote1Live(d)
    \/ Quote1Scan
    \/ \E q \in LiveQuotes2 \cup {Threw} : Quote2Live(q)
    \/ Quote2Algebraic
    \/ \E g \in GasEstimates \cup {Threw} : EstimateGas(g)
    \/ \E ok \in BOOLEAN : GetGasPrice(ok)
    \/ \E ok \in BOOLEAN : Submit(ok)
    \/ \E outcome \in WaitOutcomes, gain \in Gains : Wait(outcome, gain)
    \/ \E ok \in BOOLEAN : GetBalanceAfter(ok)
    \/ \E ok \in BOOLEAN : FallbackBalance(ok)
    \/ \E ok \in BOOLEAN : FallbackSubmit(ok)
    \/ \E outcome \in WaitOutcomes, gain \in Gains : FallbackWait(outcome, gain)
    \/ \E ok \in BOOLEAN : FallbackBalanceAfter(ok)
    \/ Continue
    \/ \E i \in 1..2, status \in {"confirmed", "failed"} : Resolve(i, status)
    \/ ResolveEarlier

\* Contract and bot as constructed
Init == SettleInit /\ BotInit /\ FnIdle

\* BotSpec: the bot against a ledger that answers or fails
BotSpec == Init /\ [][BotNext]_vars

\* SettleSpec: the contract and its ledger, the bot at rest
\* The contract on its own: the bot is configured and has not started
SettleStart == Init /\ env = REQUIRED_ENV

SettleSpec == SettleStart /\ [][SettleNext]_vars

\* The bot with its scheduling: every timer fires and every awaited remote
\* call answers or throws (setTimeout at arbitrageBot.js:737 and 742, the
\* awaits of the scan and of executeArbitrage), so the bot is not held up
\* forever at a step it can take.
BotLiveSpec == Init /\ [][BotNext]_vars /\ WF_vars(BotNext)

(***************************************************************************)
(* Claims about the settlement (checked under SettleSpec).                 *)
(***************************************************************************)
Running == {"Borrowed", "Leg1Swapped", "Leg2Swapped", "Repaid", "ProfitDistributed"}
Restored == pcS = "Reverted" /\ bal = pre.bal /\ allowance = pre.allowance

\* C1: executeOperation gets past its repayment check (Repaid), returns true
\* (ProfitDistributed) and the loan settles only with the second swap's
\* output >= amount + premium; with a lower output the step after the second
\* swap is the revert.
C1_NeverUnderwater ==
    /\ [](pcS \in {"Repaid", "ProfitDistributed", "Settled"}
            => finalAmount >= loan.amount + loan.premium)
    /\ [][(pcS = "Leg2Swapped" /\ finalAmount < loan.amount + loan.premium)
            => pcS' = "Reverted"]_vars

C1_Witness == pcS = "Reverted" /\ reason = "Insufficient return amount"

\* C2: after the borrow, no step in which the venue's swap call fails, or in
\* which the second swap's output is checked and is below amount + premium,
\* leaves the settlement running or settled: the transaction ends reverted,
\* and every revert of a running settlement leaves every balance and every
\* allowance as before the transaction.
C2_AtomicRevert ==
    [][/\ (pcS \in Running /\ pcS' # "Reverted") =>
              /\ ~ \E p \in SwapParams : Leg1(p, Fail) \/ Leg2(p, Fail)
              /\ ~ (Repay /\ finalAmount < loan.amount + loan.premium)
       /\ (pcS \in Running /\ pcS' = "Reverted") => Restored']_vars

C2_Witness ==
    /\ pcS = "Reverted"
    /\ trace = <<"Borrowed", "Leg1Swapped", "Leg2Failed">>
    /\ bal = pre.bal
    /\ allowance = pre.allowance

\* C3: for either instruction and every DEX variant, no swap step is passed
\* by an instruction whose amountOutMin is greater than the amount received;
\* any other swap step reverts the transaction and restores the ledger, so
\* no result of a swap is kept.
C3_MinimumOrRevert ==
    [][/\ (pcS = "Borrowed" /\ pcS' = "Leg1Swapped") =>
              \A p \in SwapParams :
                  p.amountOutMin > amountReceived' => ~Leg1(p, amountReceived')
       /\ (pcS = "Leg1Swapped" /\ pcS' = "Leg2Swapped") =>
              \A p \in SwapParams :
                  p.amountOutMin > finalAmount' => ~Leg2(p, finalAmount')
       /\ (pcS \in {"Borrowed", "Leg1Swapped"} /\ pcS' = "Reverted") =>
              Restored']_vars

C3_Witness == pcS = "Reverted" /\ reason = "Insufficient output amount"

\* C4: when the loan has settled, the recipient (the recipient argument, or
\* profitRecipient when the argument is the zero address) holds exactly
\* finalAmount - (amount + premium) more of the asset than before the
\* transaction, which is nothing when the two are equal.
C4_RecipientGetsNetProfit ==
    pcS = "Settled" =>
        LET r == IF loan.recipient # ZeroAddress THEN loan.recipient ELSE profitRecipient
        IN  bal[loan.asset][r] =
                pre.bal[loan.asset][r] + (finalAmount - (loan.amount + loan.premium))

C4_Witness ==
    /\ pcS = "Settled"
    /\ finalAmount > loan.amount + loan.premium
    /\ loan.premium > 0
    /\ loan.recipient = Other

C4_WitnessZeroProfit ==
    /\ pcS = "Settled"
    /\ finalAmount = loan.amount + loan.premium
    /\ bal[loan.asset][Owner] = 0

(***************************************************************************)
(* Claims about the bot (checked under BotSpec).                           *)
(***************************************************************************)
InCall ==
    {"E_balance", "E_recipient", "E_quote1", "E_quote2", "E_estimate", "E_gasPrice",
     "E_submit", "E_wait", "E_balanceAfter", "F_balance", "F_submit", "F_wait",
     "F_balanceAfter"}
InFallback == {"F_balance", "F_submit", "F_wait", "F_balanceAfter"}

Attempted(ts, ts2) == Len(ts2) > Len(ts)
Sent(ts, ts2) == Len(ts2) > Len(ts) /\ ts2[Len(ts2)].status = "pending"

\* C5: for every pair whose map holds two prices or more, the best
\* opportunity is handed to executeArbitrage if and only if it exists and its
\* profitBps is 80 or more: never at 79, always at 80.
C5_InclusiveThreshold ==
    [][(pcB = "Evaluate" /\ pcB' \notin {"Evaluate", "Backoff"}
          /\ Len(prices) >= 2) =>
         LET opp == BestOpportunity(Pair, AmountIn(Pair), prices)
         IN  (pcB' = "E_balance") <=> (opp.found /\ opp.profitBps >= 80)]_vars

C5_Witness == pcB = "E_balance" /\ best.found /\ best.profitBps = 80

C5_WitnessBelow ==
    /\ pcB = "Evaluate"
    /\ Len(prices) >= 2
    /\ BestOpportunity(Pair, AmountIn(Pair), prices).found
    /\ BestOpportunity(Pair, AmountIn(Pair), prices).profitBps = 79

\* C6: whenever leg 2 has been quoted and that quote less 3% is no more than
\* amountIn plus the premium amountIn * 9 / 10000, the call has returned false
\* without asking for a gas estimate and without submitting a transaction.
C6_RepaymentGate ==
    (pcB \in InCall \cup {"Returned"} /\ quoted.out2 # 0
        /\ (quoted.out2 * 97) \div 100 <= best.amountIn + (best.amountIn * 9) \div 10000)
    => /\ pcB = "Returned"
       /\ result = "false"
       /\ txs = <<>>
       /\ ~InLog("estimateGas")
       /\ ~InLog("submit")

C6_Witness ==
    /\ pcB = "Returned"
    /\ quoted.out2 # 0
    /\ (quoted.out2 * 97) \div 100 = best.amountIn + (best.amountIn * 9) \div 10000
    /\ result = "false"

\* C7: within one executeArbitrage call, once tx.wait has returned a receipt,
\* no further transaction is submitted, whatever fails afterwards.
C7_NoSubmissionAfterConfirmation ==
    [][(pcB \in InCall /\ InLog("confirmed")) => ~Sent(txs, txs')]_vars

\* C8: no executeArbitrage transaction is sent while a transaction sent
\* before, in this call or an earlier one, has neither confirmed nor failed.
C8_OneInFlight ==
    [][Sent(txs, txs') => (~SomePending(txs) /\ ~earlierInFlight)]_vars

C10_BoundedRetry ==
    /\ [](Len(txs) <= 2)
    /\ [][(pcB \in InFallback /\ pcB' \notin InFallback) =>
              /\ pcB' = "Returned"
              /\ (\/ Len(txs') = 0
                  \/ txs'[Len(txs')].gasLimit # 3000000
                  \/ txs'[Len(txs')].status # "confirmed") => result' = "false"]_vars
    /\ [][pcB = "Returned" => pcB' \in {"Returned", "Fetch", "Sleep"}]_vars
    /\ [][(pcB # "E_balance" /\ pcB' = "E_balance") => pairIdx \notin executed]_vars

C10_Witness ==
    /\ pcB = "Returned"
    /\ result = "false"
    /\ Len(txs) = 2
    /\ txs[1].status = "failed"
    /\ txs[2].status = "failed"

(***************************************************************************)
(* The pure functions of the scan, applied once to arguments drawn from    *)
(* bounded sets: the contract and the monitoring loop stand still.         *)
(***************************************************************************)
MaxSources == 3   \* the most entries of a prices map the selection is given

\* Quotes of WETH/WBTC one may meet in one scan, three decimals
SelectQuotes == {1000, 1010, 1020, 1050}

\* The maps of n valid quotes, keyed by the first n sources in scan order
MapsOf(n) ==
    {[k \in 1..n |-> [key |-> SOURCES[k], price |-> f[k]]] :
        f \in [1..n -> SelectQuotes]}

SelectInputs ==
    {[fn |-> "select", pair |-> 1, prs |-> m] :
        m \in UNION {MapsOf(n) : n \in 2..MaxSources}}

MaxSteps == 8   \* the quotes a route is computed from: 1000, 1007, ... in MaxSteps steps

ProfitQuotes == {1000 + 7 * k : k \in 0..MaxSteps}

ProfitInputs ==
    {[fn |-> "profit", pair |-> i, price1 |-> x, price2 |-> y] :
        i \in 1..Len(TOKEN_PAIRS), x \in ProfitQuotes, y \in ProfitQuotes}

\* The quotes the filter is given, as formatUnits writes them: whole rates
\* around the bounds, with fractions next to nothing, next to one, and on
\* either side of where parseFloat starts to round to a bound. WETH/DAI has
\* eighteen decimals on chain, WETH/USDC six, WETH/WBTC eight.
FilterUnits == {0, 50, 99, 100, 1800, 4999, 5000, 5001}
FilterHi == {0, 500000000, 999999000, 999999999}
FilterLo == {0, 1, 7105, 7106, 454747, 454748, 545252, 545253,
             999992894, 999992895, 999999999}

WireDecimals(name) ==
    IF name = "WETH/DAI" THEN 18 ELSE IF name = "WETH/USDC" THEN 6 ELSE 8

\* The decimal has no digit beyond the token's decimals
Writable(name, d) ==
    IF WireDecimals(name) = 18 THEN TRUE
    ELSE d.lo = 0 /\ d.hi % Pow10(9 - WireDecimals(name)) = 0

FilterInputs ==
    {[fn |-> "filter", name |-> TOKEN_PAIRS[i].name, quote |-> Dec(u, h, l)] :
        i \in 1..Len(TOKEN_PAIRS), u \in FilterUnits, h \in FilterHi, l \in FilterLo}

(***************************************************************************)
(* FlashLoanArbitrage, src/contracts/Arbitrage.sol: the contract the test  *)
(* exercises. executeOperation has no caller check and the test calls it   *)
(* directly, so one call is a transaction of its own: a function from the  *)
(* ledger before the call, the arguments and the routers' answers to the   *)
(* ledger after it. The token is a standard ERC20: a transfer moves the    *)
(* amount or reverts.                                                      *)
(***************************************************************************)
SwapAnswers == {"ok", "revert1", "revert2"}

\* balance and owner are the asset balances of the contract and of the
\* owner before the call; out1 and out2 are what the two routers pay out
\* (amountOutMin is 0 in both swaps, Arbitrage.sol:71, 79, 83, 91)
FlashInputs ==
    {[fn |-> "executeOperation", buyOnUni |-> u, pathLength |-> n,
      balance |-> b, owner |-> w, amount |-> a, premium |-> f,
      out1 |-> o1, out2 |-> o2, swaps |-> s] :
        u \in BOOLEAN, n \in {2, 3}, b \in 0..MaxOut, w \in 0..1,
        a \in 1..MaxAmount, f \in 0..1, o1 \in 0..1, o2 \in 0..MaxOut,
        s \in SwapAnswers}

\* Arbitrage.sol:95
totalOwed(amount, premium) == amount + premium

\* A contract that sends the owner everything it holds above the principal
OwnerProfitNoPremium(remainingBalance, amount, premium) ==
    IF remainingBalance > amount THEN remainingBalance - amount ELSE 0

\* Arbitrage.sol:99-102: what is transferred to the owner
OwnerProfit(remainingBalance, amount, premium) ==
    IF remainingBalance > totalOwed(amount, premium)
    THEN remainingBalance - totalOwed(amount, premium)
    ELSE 0

FlashReverted(x, r) ==
    [done |-> TRUE, reverted |-> TRUE, reason |-> r, balance |-> x.balance,
     owner |-> x.owner, allowancePool |-> 0, remainingBalance |-> 0]

\* FlashLoanArbitrage.executeOperation, Arbitrage.sol:53-105. Both branches
\* of buyOnUni do the same to the asset ledger: the first router pulls
\* amount of the asset (the transferFrom reverts when the contract holds
\* less), the second pays out2 of the asset for the whole token balance.
FlashExecuteOperation(x) ==
    IF x.pathLength # 2 THEN FlashReverted(x, "Invalid swap path")
    ELSE IF x.swaps = "revert1" \/ x.balance < x.amount
    THEN FlashReverted(x, "swap 1")
    ELSE IF x.swaps = "revert2" THEN FlashReverted(x, "swap 2")
    ELSE LET remainingBalance == x.balance - x.amount + x.out2
             sent == OwnerProfit(remainingBalance, x.amount, x.premium)
         IN  [done |-> TRUE, reverted |-> FALSE, reason |-> "",
              balance |-> remainingBalance - sent,
              owner |-> x.owner + sent,
              allowancePool |-> totalOwed(x.amount, x.premium),
              remainingBalance |-> remainingBalance]

PureInputs ==
    SelectInputs \cup ProfitInputs
        \cup {x \in FilterInputs : Writable(x.name, x.quote)}
        \cup FlashInputs

PureInit ==
    /\ SettleInit
    /\ BotInit
    /\ env = REQUIRED_ENV
    /\ fnIn \in PureInputs
    /\ fnOut = NoResult

\* The route loop of one pair, arbitrageBot.js:280-380
ApplySelect ==
    /\ fnIn.fn = "select"
    /\ ~fnOut.done
    /\ fnOut' = [done |-> TRUE,
                 value |-> BestOpportunity(TOKEN_PAIRS[fnIn.pair],
                               AmountIn(TOKEN_PAIRS[fnIn.pair]), fnIn.prs)]
    /\ UNCHANGED <<settleVars, botVars, env, fnIn>>

\* One route, arbitrageBot.js:311-351
ApplyProfit ==
    /\ fnIn.fn = "profit"
    /\ ~fnOut.done
    /\ LET pair == TOKEN_PAIRS[fnIn.pair]
           profit == RouteProfit(pair, AmountIn(pair), fnIn.price1, fnIn.price2)
       IN  fnOut' = [done |-> TRUE, profit |-> profit,
                     profitBps |-> ProfitBps(profit, AmountIn(pair)),
                     amountB |-> AmountB(AmountIn(pair), fnIn.price1)]
    /\ UNCHANGED <<settleVars, botVars, env, fnIn>>

\* isPriceValid, arbitrageBot.js:159-199
ApplyFilter ==
    /\ fnIn.fn = "filter"
    /\ ~fnOut.done
    /\ fnOut' = [done |-> TRUE, valid |-> PriceValid(fnIn.name, fnIn.quote)]
    /\ UNCHANGED <<settleVars, botVars, env, fnIn>>

\* One call of FlashLoanArbitrage.executeOperation, Arbitrage.sol:53-105
ApplyExecuteOperation ==
    /\ fnIn.fn = "executeOperation"
    /\ ~fnOut.done
    /\ fnOut' = FlashExecuteOperation(fnIn)
    /\ UNCHANGED <<settleVars, botVars, env, fnIn>>

PureNext ==
    \/ ApplySelect
    \/ ApplyProfit
    \/ ApplyFilter
    \/ ApplyExecuteOperation

PureSpec == PureInit /\ [][PureNext]_vars

Selected == fnIn.fn = "select" /\ fnOut.done

\* The profit of the route from entry i to entry j of the map given
ProfitOf(i, j) ==
    RouteProfit(TOKEN_PAIRS[fnIn.pair], AmountIn(TOKEN_PAIRS[fnIn.pair]),
                fnIn.prs[i].price, fnIn.prs[j].price)

Routes == {r \in (1..Len(fnIn.prs)) \X (1..Len(fnIn.prs)) : r[1] # r[2]}

\* C11: a pair whose map holds fewer than two valid quotes yields no
\* opportunity, and executeArbitrage is not called for it in that scan.
C11_TooFewQuotes ==
    [][(pcB = "Evaluate" /\ Len(prices) < 2) =>
          /\ Evaluated(Pair, AmountIn(Pair), prices) = NoOpp
          /\ pcB' # "E_balance"
          /\ best' = NoOpp
          /\ executed' = executed]_vars

C11_Witness == pcB = "Evaluate" /\ Len(prices) = 1 /\ pairIdx \notin executed

\* C12: the opportunity the route loop keeps has a profit at least as great
\* as that of every route with a positive profit that the loop looked at,
\* and it is one of those routes.
C12_MaxSelection ==
    Selected =>
        /\ \A r \in Routes :
              ProfitOf(r[1], r[2]) > 0 =>
                  /\ fnOut.value.found
                  /\ fnOut.value.expectedProfit >= ProfitOf(r[1], r[2])
        /\ fnOut.value.found =>
              \E r \in Routes :
                  /\ fnOut.value.expectedProfit = ProfitOf(r[1], r[2])
                  /\ fnOut.value.sourceDex = fnIn.prs[r[1]].key.dex
                  /\ fnOut.value.targetDex = fnIn.prs[r[2]].key.dex

\* Three routes of different positive profit, the greatest neither the first
\* nor the last the loop looks at
C12_Witness ==
    /\ Selected
    /\ Len(fnIn.prs) = 3
    /\ fnIn.prs[1].price = 1020
    /\ fnIn.prs[2].price = 1050
    /\ fnIn.prs[3].price = 1000
    /\ fnOut.value.expectedProfit = ProfitOf(2, 3)
    /\ ProfitOf(1, 3) > 0
    /\ ProfitOf(2, 1) > 0

\* C13: the best opportunity is absent or has a profit above zero: a route
\* whose profit is zero or less is never the one selected.
C13_BestIsPositive ==
    Selected => (fnOut.value = NoOpp \/ fnOut.value.expectedProfit > 0)

\* Every route of the map loses, and nothing is selected
C13_Witness ==
    /\ Selected
    /\ \A r \in Routes : ProfitOf(r[1], r[2]) <= 0
    /\ \E r \in Routes : ProfitOf(r[1], r[2]) < 0
    /\ fnOut.value = NoOpp

\* C14: with X the source quote, Y = X * oneTokenA / price2 its worth in the
\* base asset, f2 = 0.003 and p = 0.0009, the profit of a route is
\* Y * (1 - f2) - amountIn * (1 + p) less what the three integer divisions
\* drop (under oneTokenA / price2 + X / oneTokenB + 1), and profitBps is
\* profit * 10000 / amountIn truncated toward zero. Both sides of the first
\* comparison are multiplied by price2 to stay in the integers.
C14_ProfitFormula ==
    (fnIn.fn = "profit" /\ fnOut.done) =>
        LET pair == TOKEN_PAIRS[fnIn.pair]
            oneA == Pow10(pair.decimalsA)
            oneB == Pow10(pair.decimalsB)
            amountIn == oneA
            X == fnIn.price1
            finalAmt == fnOut.profit + amountIn + (amountIn \div 10000) * 9
            refTimesPrice2 == 997 * X * (oneA \div 1000)
            gotTimesPrice2 == finalAmt * fnIn.price2
            slackTimesPrice2 == oneA + (X * fnIn.price2) \div oneB + 1 + fnIn.price2
            bps == fnOut.profitBps
        IN  /\ gotTimesPrice2 <= refTimesPrice2
            /\ refTimesPrice2 - gotTimesPrice2 < slackTimesPrice2
            /\ IF fnOut.profit >= 0
               THEN /\ bps * amountIn <= fnOut.profit * 10000
                    /\ fnOut.profit * 10000 < (bps + 1) * amountIn
               ELSE /\ (bps - 1) * amountIn < fnOut.profit * 10000
                    /\ fnOut.profit * 10000 <= bps * amountIn

\* A route that gains and one that loses, each with a division that truncates
C14_Witness ==
    /\ fnIn.fn = "profit"
    /\ fnOut.done
    /\ fnIn.price1 = 1056
    /\ fnIn.price2 = 1007
    /\ fnOut.profit > 0
    /\ (fnOut.profit * 10000) % Pow10(TOKEN_PAIRS[fnIn.pair].decimalsA) # 0

C14_WitnessLoss ==
    /\ fnIn.fn = "profit"
    /\ fnOut.done
    /\ fnOut.profit < 0
    /\ fnOut.profitBps < 0
    /\ (fnOut.profit * 10000) % Pow10(TOKEN_PAIRS[fnIn.pair].decimalsA) # 0

Filtered == fnIn.fn = "filter" /\ fnOut.done
Bounded == fnIn.name \in {"WETH/DAI", "WETH/USDC"}

\* C15, as stated: for WETH/DAI and WETH/USDC every quote whose rate is below
\* 100 or above 5000 is rejected and every quote whose rate lies strictly
\* between them is accepted.
C15_AsStated ==
    (Filtered /\ Bounded) =>
        /\ (DecLess(fnIn.quote, Whole(100)) \/ DecLess(Whole(5000), fnIn.quote))
               => ~fnOut.valid
        /\ (DecLess(Whole(100), fnIn.quote) /\ DecLess(fnIn.quote, Whole(5000)))
               => fnOut.valid

\* What the filter does decide: a rate is rejected when the double nearest to
\* it is below 100 or above 5000, so rates from 100 to 5000 inclusive are
\* accepted, rates of six decimals are decided exactly, and a WETH/DAI rate
\* outside the range is rejected unless it rounds to the bound.
C15_RoundedBounds ==
    (Filtered /\ Bounded) =>
        /\ (~DecLess(fnIn.quote, Whole(100)) /\ ~DecLess(Whole(5000), fnIn.quote))
               => fnOut.valid
        /\ (DecLess(fnIn.quote, Whole(100)) /\ fnOut.valid)
               => (fnIn.name = "WETH/DAI" /\ RoundsTo(fnIn.quote, 100, 7105))
        /\ (DecLess(Whole(5000), fnIn.quote) /\ fnOut.valid)
               => (fnIn.name = "WETH/DAI" /\ RoundsTo(fnIn.quote, 5000, 454747))

\* The quote 99.999999999999999999 of WETH/DAI has been accepted
C15_Witness ==
    /\ Filtered
    /\ fnIn.name = "WETH/DAI"
    /\ fnIn.quote = Dec(99, 999999999, 999999999)
    /\ fnOut.valid

\* The keys of the map are sources met so far in this pair, in scan order
KeysInOrder ==
    /\ \A a \in 1..Len(prices) :
          \E n \in 1..Len(SOURCES) :
              /\ prices[a].key = SOURCES[n]
              /\ (pcB = "Fetch" => n < srcIdx)
    /\ \A a, b \in 1..Len(prices) :
          a < b => \E m, n \in 1..Len(SOURCES) :
                       m < n /\ prices[a].key = SOURCES[m] /\ prices[b].key = SOURCES[n]

\* C16: a quote call that fails, of a DEX or of one Uniswap V3 tier, adds no
\* entry to the map and takes none away; the scan goes on to the next source
\* of the same pair, or to the evaluation after the last one; and the routes
\* among the quotes that are in the map are evaluated whatever sources are
\* missing from it.
C16_QuoteFailureIsLocal ==
    /\ [][(pcB = "Fetch" /\ pcB' # "Backoff"
            /\ (pcB' # pcB \/ srcIdx' # srcIdx \/ prices' # prices)) =>
              /\ \/ prices' = prices
                 \/ /\ Len(prices') = Len(prices) + 1
                    /\ SubSeq(prices', 1, Len(prices)) = prices
                    /\ prices'[Len(prices')].key = SOURCES[srcIdx]
              /\ pairIdx' = pairIdx
              /\ IF srcIdx < Len(SOURCES)
                 THEN srcIdx' = srcIdx + 1 /\ pcB' = "Fetch"
                 ELSE pcB' = "Evaluate"]_vars
    /\ [](pcB \in {"Fetch", "Evaluate"} => KeysInOrder)
    /\ [][(pcB = "Evaluate" /\ pcB' \notin {"Evaluate", "Backoff"}
            /\ Len(prices) >= 2) =>
              LET opp == BestOpportunity(Pair, AmountIn(Pair), prices)
              IN  IF ShouldExecute(opp)
                  THEN pcB' = "E_balance" /\ best' = opp
                  ELSE pcB' \in {"Fetch", "Sleep"}]_vars

\* Uniswap V2 and one more source of WETH/WBTC have failed; among the quotes
\* left there is a route of positive profit
C16_Witness ==
    /\ pcB = "Evaluate"
    /\ pairIdx = 1
    /\ Len(prices) >= 2
    /\ Len(prices) <= Len(SOURCES) - 2
    /\ prices[1].key # SOURCES[1]
    /\ BestOpportunity(Pair, AmountIn(Pair), prices).found

Waiting == pcB \in {"Sleep", "Backoff"}
CycleStart == pcB = "Fetch" /\ pairIdx = 1 /\ srcIdx = 1 /\ prices = <<>>

\* C17: an error of a scan cycle is caught by the monitoring loop, which then
\* waits 10 seconds, longer than the 5 seconds after a cycle without error,
\* and starts another cycle; every cycle ends in one of the two waits and
\* every wait is followed by a new cycle; the process exits only at startup,
\* never for the error of a cycle.
C17_LoopSurvivesErrors ==
    /\ [][pcB' = "Exited" => pcB \in {"Boot", "Exited"}]_vars
    /\ [][(pcB' = "Backoff" /\ pcB # "Backoff") => pcB \in {"Fetch", "Evaluate"}]_vars
    /\ [][(pcB \in {"Fetch", "Evaluate"} /\ pcB' \notin {"Fetch", "Evaluate",
               "E_balance", "Sleep"}) => pcB' = "Backoff"]_vars
    /\ [][(Waiting /\ pcB' # pcB) => CycleStart']_vars
    /\ [](WaitInterval("Backoff") = 10000 /\ WaitInterval("Sleep") = 5000)
    /\ (CycleStart ~> Waiting)
    /\ (Waiting ~> CycleStart)

C17_Witness == pcB = "Backoff" /\ pairIdx = 2

\* C18: an unexpected error while one pair is processed does not keep the
\* remaining pairs from being scanned in the same cycle: a cycle ends, in
\* either wait, only once the last configured pair has been processed.
C18_RemainingPairsScanned ==
    [][(~Waiting /\ Waiting') => pairIdx = Len(TOKEN_PAIRS)]_vars

\* The error is thrown while the first pair is processed and the cycle is over
C18_Witness == pcB = "Backoff" /\ pairIdx = 1

\* C19: with PRIVATE_KEY, ARBITRAGE_CONTRACT_ADDRESS or RPC_URL missing at
\* startup the process exits: it never starts a scan, asks no quote and
\* submits nothing.
C19_MissingEnvExits ==
    /\ [](~(REQUIRED_ENV \subseteq env) =>
            /\ pcB \in {"Boot", "Exited"}
            /\ prices = <<>>
            /\ executed = {}
            /\ txs = <<>>
            /\ log = <<>>)
    /\ [][(pcB = "Boot" /\ ~(REQUIRED_ENV \subseteq env) /\ pcB' # pcB)
              => pcB' = "Exited"]_vars
    /\ [][pcB = "Exited" => pcB' = "Exited"]_vars

C19_Witness ==
    /\ pcB = "Exited"
    /\ env = {"PRIVATE_KEY", "ARBITRAGE_CONTRACT_ADDRESS"}

\* The call has returned true after a transaction of this call was confirmed
ConfirmedExecution ==
    /\ pcB = "Returned"
    /\ result = "true"
    /\ Len(txs) > 0
    /\ txs[Len(txs)].status = "confirmed"

\* C20: after every confirmed execution the bot reports the realized profit
\* as the wallet's tokenA balance after the execution less the balance
\* before it: a gain is reported as the actual profit, and no profit is
\* reported only when the balance has not grown.
C20_ReportsRealizedProfit ==
    ConfirmedExecution =>
        IF WalletTokenAfter - WalletTokenBefore > 0
        THEN InLog("actualProfit")
        ELSE InLog("noProfitDetected")

\* A confirmed execution that made the wallet richer is reported as
\* "no profit detected"
C20_Witness ==
    /\ ConfirmedExecution
    /\ WalletTokenAfter - WalletTokenBefore > 0
    /\ InLog("noProfitDetected")

(***************************************************************************)
(* Further claims about the contract (checked under SettleSpec).           *)
(***************************************************************************)

\* C21: the default profit recipient is the deployer until the owner sets
\* another one: setProfitRecipient called by anyone else reverts and leaves
\* profitRecipient as it was, every change of profitRecipient is the
\* owner's call with a non-zero address, and the profit of a settlement
\* goes to profitRecipient when the recipient argument is the zero address
\* and to the recipient argument otherwise.
C21_RecipientOwnerControlled ==
    /\ [](trace = <<>> => profitRecipient = Owner)
    /\ [][\A r \in NewRecipients :
              SetProfitRecipient(Other, r) =>
                  /\ profitRecipient' = profitRecipient
                  /\ pcS' = "Reverted"
                  /\ reason' = "Ownable: caller is not the owner"]_vars
    /\ [][profitRecipient' # profitRecipient =>
              \E r \in NewRecipients \ {ZeroAddress} : SetProfitRecipient(Owner, r)]_vars
    /\ [][(pcS = "Repaid" /\ pcS' = "ProfitDistributed") =>
              LET to == IF loan.recipient = ZeroAddress THEN profitRecipient
                        ELSE loan.recipient
                  profit == finalAmount - (loan.amount + loan.premium)
              IN  /\ bal'[loan.asset][to] = bal[loan.asset][to] + profit
                  /\ \A h \in Holders \ {to, This} :
                         bal'[loan.asset][h] = bal[loan.asset][h]]_vars

\* The owner has named another default recipient, and a settlement called
\* with the zero address has paid it a profit
C21_Witness ==
    /\ pcS = "ProfitDistributed"
    /\ loan.recipient = ZeroAddress
    /\ profitRecipient = Other
    /\ finalAmount > loan.amount + loan.premium
    /\ bal[loan.asset][Other] > 0

\* The steps of one settlement, in the order of executeOperation
SettlementOrder ==
    <<"Borrowed", "Leg1Swapped", "Leg2Swapped", "Repaid", "ProfitDistributed">>

Intermediate == {SettlementOrder[k] : k \in 1..Len(SettlementOrder)}

StepIndex(s) == CHOOSE k \in 1..Len(SettlementOrder) : SettlementOrder[k] = s

\* C22: a settlement passes through Borrowed, Leg1Swapped, Leg2Swapped,
\* Repaid and ProfitDistributed in this order only: the steps taken so far
\* are always a prefix of that sequence, leg 2 runs only after leg 1 has
\* succeeded, profit is transferred only after the repayment check has
\* passed and the pool has been approved, the only other successor of an
\* intermediate state is Reverted, and a reverted settlement takes no
\* further step (what follows is a new transaction, starting afresh).
C22_StepsInOrder ==
    /\ [](pcS \in Intermediate =>
            trace = SubSeq(SettlementOrder, 1, StepIndex(pcS)))
    /\ [][(pcS \in Intermediate /\ pcS' # pcS) =>
              \/ pcS' = "Reverted"
              \/ /\ pcS # "ProfitDistributed"
                 /\ pcS' = SettlementOrder[StepIndex(pcS) + 1]
              \/ pcS = "ProfitDistributed" /\ pcS' = "Settled"]_vars
    /\ [][pcS' = "Leg2Swapped" /\ pcS # pcS' => pcS = "Leg1Swapped"]_vars
    /\ [][(pcS' = "ProfitDistributed" /\ pcS # pcS') =>
              /\ pcS = "Repaid"
              /\ finalAmount >= loan.amount + loan.premium
              /\ allowance[loan.asset][POOL] = loan.amount + loan.premium]_vars
    /\ [][pcS = "Reverted" =>
              \/ pcS' \in {"Reverted", "Idle"} /\ Len(trace') <= 1
              \/ pcS' = "Borrowed" /\ trace' = <<"Borrowed">>]_vars

\* A settlement has gone through all five steps
C22_Witness == pcS = "ProfitDistributed" /\ trace = SettlementOrder

\* A settlement has reverted in its second leg
C22_WitnessReverted ==
    pcS = "Reverted" /\ trace = <<"Borrowed", "Leg1Swapped", "Leg2Failed">>

(***************************************************************************)
(* Further claims about the pure functions (checked under PureSpec).       *)
(***************************************************************************)

\* C23: for a pair without configured bounds (WETH/WBTC) the filter accepts
\* every quote that is not zero, whatever its rate, and rejects the zero
\* quote only.
C23_UnboundedPairPasses ==
    (Filtered /\ fnIn.name = "WETH/WBTC") =>
        (fnOut.valid <=> fnIn.quote # Whole(0))

\* A WETH/WBTC quote above the upper bound of the other pairs has passed
C23_Witness ==
    /\ Filtered
    /\ fnIn.name = "WETH/WBTC"
    /\ fnIn.quote.units = 5001
    /\ fnOut.valid

\* A WETH/WBTC quote below the lower bound of the other pairs has passed
C23_WitnessLow ==
    /\ Filtered
    /\ fnIn.name = "WETH/WBTC"
    /\ fnIn.quote = Dec(0, 500000000, 0)
    /\ fnOut.valid

\* FlashLoanArbitrage.executeOperation has returned true
FlashExecuted == fnIn.fn = "executeOperation" /\ fnOut.done /\ ~fnOut.reverted

\* The contract's asset balance after the two swaps
BalanceAfterSwaps == fnIn.balance - fnIn.amount + fnIn.out2

\* C24: when FlashLoanArbitrage.executeOperation returns with the
\* contract's asset balance after the two swaps above amount + premium,
\* the owner has received exactly that balance less amount + premium and
\* the contract holds exactly amount + premium; when the balance is not
\* above amount + premium, the owner has received nothing.
C24_SurplusToOwner ==
    FlashExecuted =>
        IF BalanceAfterSwaps > fnIn.amount + fnIn.premium
        THEN /\ fnOut.owner = fnIn.owner
                                  + (BalanceAfterSwaps - (fnIn.amount + fnIn.premium))
             /\ fnOut.owner > fnIn.owner
             /\ fnOut.balance = fnIn.amount + fnIn.premium
        ELSE /\ fnOut.owner = fnIn.owner
             /\ fnOut.balance = BalanceAfterSwaps

\* A call with a premium whose swaps left the contract a surplus
C24_Witness ==
    /\ FlashExecuted
    /\ fnIn.premium > 0
    /\ BalanceAfterSwaps > fnIn.amount + fnIn.premium
    /\ fnOut.owner > fnIn.owner

\* A call whose swaps left the contract short of amount + premium: it
\* returns true all the same, with nothing sent to the owner
C24_WitnessShort ==
    /\ FlashExecuted
    /\ BalanceAfterSwaps < fnIn.amount + fnIn.premium
    /\ fnOut.owner = fnIn.owner

\* C25: in detection the tokenB carried into the return leg of a route is
\* the source quote reduced by the source DEX's fee (0.3% for every
\* configured DEX).
C25_Leg1FeeApplied ==
    (fnIn.fn = "profit" /\ fnOut.done) =>
        fnOut.amountB = (fnIn.price1 * FEE_KEEP_PER_MILLE) \div 1000

(***************************************************************************)
(* Further claims about the bot (checked under BotSpec).                   *)
(***************************************************************************)

\* C26: in every executeArbitrage call, whatever the source DEX, the
\* expected output of leg 1 is obtained by asking a quote for amountIn
\* after detection: the call does not go on to leg 2 without having asked.
C26_Leg1AlwaysRequoted ==
    [][(pcB = "E_quote1" /\ pcB' = "E_quote2") =>
          log' = Append(log, "quote1")]_vars

\* The step of executeArbitrage that settles the expected output of leg 2
Leg2Quoted == pcB = "E_quote2" /\ pcB' # pcB /\ quoted'.out2 # quoted.out2

\* C27: the expected output of leg 2 is, for a Uniswap V3 target, the
\* answer to a quote asked live for tokenB -> tokenA at the target fee tier
\* with exactly quotedOut1 as input; for any other target no quote is asked
\* and it is quotedOut1 * (oneTokenA * oneTokenB / price2) / oneTokenB, each
\* division truncating, with price2 the target's quote of the scan.
C27_Leg2ExpectedOutput ==
    [][Leg2Quoted =>
          IF best.targetDex = UNISWAP_V3
          THEN /\ log' = Append(log, "quote2")
               /\ quoted'.req2 = [tokenIn |-> "B", tokenOut |-> "A",
                                  fee |-> best.targetFee, amountIn |-> quoted.out1]
          ELSE /\ log' = log
               /\ quoted'.req2 = NoRequest
               /\ quoted'.out2 =
                      (quoted.out1 * ((Pow10(Pair.decimalsA) * Pow10(Pair.decimalsB))
                                          \div best.price2))
                          \div Pow10(Pair.decimalsB)]_vars

\* Leg 2 was quoted live on a Uniswap V3 tier for a leg-1 quote that had
\* moved away from the scan's price
C27_Witness ==
    /\ quoted.out2 # 0
    /\ best.targetDex = UNISWAP_V3
    /\ best.targetFee # 0
    /\ quoted.out1 # best.price1
    /\ quoted.req2.amountIn = quoted.out1

\* Leg 2 was computed from the scan's price for a Sushiswap target
C27_WitnessAlgebraic ==
    /\ quoted.out2 # 0
    /\ best.targetDex = SUSHISWAP
    /\ quoted.req2 = NoRequest

\* C28: in every execution minOut1 is quotedOut1 * 97 / 100 and minOut2 is
\* quotedOut2 * 97 / 100, both rounded down, and these are the amountOutMin
\* of the first and of the second instruction of every submission.
C28_SlippageBounds ==
    /\ [](swaps.built =>
            /\ swaps.first.amountOutMin = (quoted.out1 * 97) \div 100
            /\ swaps.second.amountOutMin = (quoted.out2 * 97) \div 100)
    /\ [][Attempted(txs, txs') =>
              /\ swaps.built
              /\ swaps' = swaps
              /\ quoted' = quoted]_vars

\* A transaction was submitted whose two bounds are both rounded
C28_Witness ==
    /\ Len(txs) > 0
    /\ swaps.built
    /\ (quoted.out1 * 97) % 100 # 0
    /\ (quoted.out2 * 97) % 100 # 0

\* What leg 1 may deliver to the contract for the instructions built: amounts
\* on either side of the second leg's input and of the first leg's minimum
Leg1Deliveries ==
    {swaps.second.amountIn + d : d \in {-1, 0, 1}}
        \cup {swaps.first.amountOutMin + d : d \in {-1, 0, 1}}

\* C29: in every submitted pair of instructions secondSwap.amountIn is
\* firstSwap.amountOutMin * 95 / 100 rounded down, which is no more than
\* firstSwap.amountOutMin and so no more than any amount leg 1 delivers
\* without being reverted by the contract's closing check.
C29_Leg2WithinLeg1 ==
    /\ [](swaps.built =>
            LET min1 == swaps.first.amountOutMin
                in2 == swaps.second.amountIn
            IN  /\ in2 = (min1 * 95) \div 100
                /\ in2 <= min1
                /\ \A received \in Leg1Deliveries :
                       OutputCheck(received, min1) => in2 <= received)
    /\ [][Attempted(txs, txs') => swaps.built /\ swaps' = swaps]_vars

\* A transaction was submitted whose second leg spends a rounded amount
\* below the first leg's minimum
C29_Witness ==
    /\ Len(txs) > 0
    /\ swaps.built
    /\ swaps.second.amountIn < swaps.first.amountOutMin
    /\ (swaps.first.amountOutMin * 95) % 100 # 0

\* The place of route r in the iteration of the map by the two loops
RouteOrder(r) == (r[1] - 1) * Len(fnIn.prs) + r[2]

\* The routes whose profit is that of the opportunity selected
TopRoutes == {r \in Routes : ProfitOf(r[1], r[2]) = fnOut.value.expectedProfit}

\* C30: when several routes of a pair have the same greatest positive
\* profit, the opportunity selected is the one of them the loops evaluate
\* first, in the insertion order of the map (Uniswap V2, the Uniswap V3
\* tiers in configured order, Sushiswap).
C30_FirstSeenWins ==
    (Selected /\ fnOut.value.found) =>
        \E r \in TopRoutes :
            /\ \A s \in TopRoutes : RouteOrder(r) <= RouteOrder(s)
            /\ fnOut.value.sourceDex = fnIn.prs[r[1]].key.dex
            /\ fnOut.value.sourceFee = KeyFee(fnIn.prs[r[1]].key)
            /\ fnOut.value.targetDex = fnIn.prs[r[2]].key.dex
            /\ fnOut.value.targetFee = KeyFee(fnIn.prs[r[2]].key)

\* Two routes from Uniswap V2 tie for the greatest profit, and the one to
\* the first Uniswap V3 tier is selected
C30_Witness ==
    /\ Selected
    /\ Len(fnIn.prs) = 3
    /\ fnIn.prs[1].price = 1050
    /\ fnIn.prs[2].price = 1000
    /\ fnIn.prs[3].price = 1000
    /\ ProfitOf(1, 2) > 0
    /\ TopRoutes = {<<1, 2>>, <<1, 3>>}
    /\ fnOut.value.targetFee = KeyFee(fnIn.prs[2].key)

(***************************************************************************)
(* Claims about the order and the ownership of a scan (BotSpec).           *)
(***************************************************************************)

\* The pairs and the sources as configured, in order
ConfiguredPairs == <<"WETH/WBTC", "WETH/USDC", "WETH/DAI">>
ConfiguredSources ==
    <<[dex |-> 0, tier |-> 0], [dex |-> 1, tier |-> 100], [dex |-> 1, tier |-> 500],
      [dex |-> 1, tier |-> 3000], [dex |-> 1, tier |-> 10000], [dex |-> 2, tier |-> 0]>>

\* C31: in every cycle the pairs are processed in the order WETH/WBTC,
\* WETH/USDC, WETH/DAI and the sources of a pair are asked in the order
\* Uniswap V2, Uniswap V3 tiers 100, 500, 3000, 10000, Sushiswap: a cycle
\* starts at the first source of the first pair, the scan moves from a
\* source to the next one of the same pair only, from a pair to the next
\* pair only and to its first source, and while executeArbitrage runs for a
\* pair no quote is asked and the scan stays at that pair.
C31_FixedScanOrder ==
    /\ [](/\ [k \in 1..Len(TOKEN_PAIRS) |-> TOKEN_PAIRS[k].name] = ConfiguredPairs
          /\ SOURCES = ConfiguredSources
          /\ KeysInOrder)
    /\ [][(pcB \in {"Idle", "Sleep", "Backoff"} /\ pcB' # pcB) =>
              (pcB' = "Fetch" /\ pairIdx' = 1 /\ srcIdx' = 1 /\ prices' = <<>>)]_vars
    /\ [][(pcB = "Fetch" /\ pcB' = "Fetch" /\ srcIdx' # srcIdx) =>
              (srcIdx' = srcIdx + 1 /\ pairIdx' = pairIdx)]_vars
    /\ [][(pcB = "Fetch" /\ pcB' = "Evaluate") =>
              (srcIdx = Len(SOURCES) /\ pairIdx' = pairIdx)]_vars
    /\ [][(pairIdx' # pairIdx /\ pcB \notin {"Idle", "Sleep", "Backoff"}) =>
              /\ pcB \in {"Evaluate", "Returned"}
              /\ pairIdx' = pairIdx + 1
              /\ pcB' = "Fetch"
              /\ srcIdx' = 1
              /\ prices' = <<>>]_vars
    /\ [][(pcB \in InCall) =>
              /\ pairIdx' = pairIdx
              /\ srcIdx' = srcIdx
              /\ prices' = prices
              /\ pcB' \in InCall \cup {"Returned"}]_vars

\* The second pair has been executed and the scan asks the last source of
\* the third pair
C31_Witness ==
    /\ pcB = "Fetch"
    /\ pairIdx = 3
    /\ srcIdx = Len(SOURCES)
    /\ 2 \in executed
    /\ Len(prices) >= 2

\* The scan of a pair begins: its first source is about to be asked
PairScanStarts == pcB = "Fetch" /\ srcIdx = 1

\* C32: the map of quotes and the best opportunity of a pair are empty when
\* the scan of the pair begins; the map grows only by a quote fetched for
\* this pair from the source being asked; the opportunity evaluated, and
\* executed, is computed from this map and belongs to this pair; and both
\* are dropped when the scan leaves the pair, so nothing of another pair or
\* of an earlier cycle is read.
C32_NoCaching ==
    /\ [](PairScanStarts => (prices = <<>> /\ best = NoOpp))
    /\ [][prices' # prices =>
              \/ prices' = <<>>
              \/ /\ pcB = "Fetch"
                 /\ pairIdx' = pairIdx
                 /\ \E q \in Pair.quotes :
                        prices' = Append(prices, [key |-> SOURCES[srcIdx], price |-> q])]_vars
    /\ [][best' # best =>
              \/ best' = NoOpp
              \/ /\ pcB = "Evaluate"
                 /\ pairIdx' = pairIdx
                 /\ best' = BestOpportunity(Pair, AmountIn(Pair), prices)
                 /\ best'.pair = Pair.name
                 /\ \E a, b \in 1..Len(prices) :
                        best'.price1 = prices[a].price /\ best'.price2 = prices[b].price]_vars
    /\ [][(pairIdx' # pairIdx \/ (Waiting /\ pcB' = "Fetch")) =>
              (prices' = <<>> /\ best' = NoOpp)]_vars
    /\ []((pcB \in InCall \cup {"Returned"}) => (best.found /\ best.pair = Pair.name))

\* After the second pair was executed the scan of the third begins with an
\* empty map and no opportunity
C32_Witness ==
    /\ PairScanStarts
    /\ pairIdx = 3
    /\ 2 \in executed
    /\ prices = <<>>
    /\ best = NoOpp

\* executeArbitrage is invoked
Invoked == pcB # "E_balance" /\ pcB' = "E_balance"

\* C33: in one scan cycle executeArbitrage is invoked at most once for each
\* pair, at the end of the pair's evaluation, and with the best opportunity
\* of the pair's map and nothing else.
C33_OncePerPair ==
    /\ [][Invoked =>
              /\ pcB = "Evaluate"
              /\ pairIdx \notin executed
              /\ executed' = executed \cup {pairIdx}
              /\ pairIdx' = pairIdx
              /\ best' = BestOpportunity(Pair, AmountIn(Pair), prices)
              /\ best'.found]_vars
    /\ [][(pcB \in InCall \cup {"Returned"}) => (best' = best \/ best' = NoOpp)]_vars
    /\ [][executed' # executed =>
              (Invoked \/ ((Waiting \/ pcB = "Idle") /\ executed' = {}))]_vars

\* Two pairs of one cycle have each been handed to executeArbitrage
C33_Witness ==
    /\ pcB = "Sleep"
    /\ executed = {2, 3}

\* C34: for WETH/DAI and WETH/USDC a quote whose rate is exactly 100 or
\* exactly 5000 is accepted by isPriceValid.
C34_BoundsInclusive ==
    (Filtered /\ Bounded /\ fnIn.quote \in {Whole(100), Whole(5000)}) => fnOut.valid

\* The rate 5000 of WETH/USDC has been accepted
C34_Witness ==
    /\ Filtered
    /\ fnIn.name = "WETH/USDC"
    /\ fnIn.quote = Whole(5000)
    /\ fnOut.valid

\* The rate 100 of WETH/DAI has been accepted
C34_WitnessLower ==
    /\ Filtered
    /\ fnIn.name = "WETH/DAI"
    /\ fnIn.quote = Whole(100)
    /\ fnOut.valid

(***************************************************************************)
(* Claims relating detection, the live gate and the settlement (BotSpec).  *)
(***************************************************************************)

\* What a venue pays for amountIn when it settles at the rate of the quote
\* quoteOut for quoteIn, output proportional to input
AtQuotedRate(amountIn, quoteIn, quoteOut) == (quoteOut * amountIn) \div quoteIn

\* C35: for every execution submitted, a second swap that settles at the
\* rate of its quote pays, for secondSwap.amountIn, at least
\* secondSwap.amountOutMin, so that the closing check of executeSwap
\* passes at unchanged prices.
C35_MinimumsFeasible ==
    (Len(txs) > 0 /\ swaps.built) =>
        OutputCheck(AtQuotedRate(swaps.second.amountIn, quoted.out1, quoted.out2),
                    swaps.second.amountOutMin)

\* The leg-2 step of a call in which no quote has changed since detection:
\* leg 1 is expected to pay the scan's price1 and leg 2 what the scan's
\* price2 implies for it
QuotedUnchanged ==
    /\ pcB = "E_quote2"
    /\ pcB' # pcB
    /\ quoted.out1 = best.price1
    /\ quoted'.out2 = AlgebraicOut2(Pair, best.price1, best.price2)

\* C36: an opportunity detected with profitBps >= 80 whose quotes have not
\* changed between detection and execution passes the live repayment gate
\* (minOut2 > amountIn + premium), and the call goes on to submit.
C36_GateAgreesWithDetection ==
    [][(QuotedUnchanged /\ best.profitBps >= 80) =>
          /\ (quoted'.out2 * 97) \div 100 > best.amountIn + (best.amountIn * 9) \div 10000
          /\ pcB' = "E_estimate"]_vars

(***************************************************************************)
(* Further claims about the route computation (PureSpec).                  *)
(***************************************************************************)

\* C37: a route whose source quote is no greater than its target quote has
\* a profit of zero or less, so of the two directions between two sources
\* of a map at most one has a positive profit.
C37_NoProfitFromAdverseSpread ==
    /\ (fnIn.fn = "profit" /\ fnOut.done /\ fnIn.price1 <= fnIn.price2)
           => fnOut.profit <= 0
    /\ Selected =>
           \A r \in Routes :
               /\ fnIn.prs[r[1]].price <= fnIn.prs[r[2]].price
                      => ProfitOf(r[1], r[2]) <= 0
               /\ ~ (ProfitOf(r[1], r[2]) > 0 /\ ProfitOf(r[2], r[1]) > 0)

\* The route from the lowest to the highest quote loses
C37_Witness ==
    /\ fnIn.fn = "profit"
    /\ fnOut.done
    /\ fnIn.price1 = 1000
    /\ fnIn.price2 = 1056
    /\ fnOut.profit < 0

\* Of the two directions between two sources one gains and the other loses
C37_WitnessOneWay ==
    /\ Selected
    /\ Len(fnIn.prs) = 2
    /\ ProfitOf(1, 2) > 0
    /\ ProfitOf(2, 1) < 0

(***************************************************************************)
(* Claims about who may act on the contract (SettleSpec).                  *)
(***************************************************************************)

\* The ledger and the recipient are as they were before the step
LedgerUnchanged ==
    /\ bal' = bal
    /\ allowance' = allowance
    /\ profitRecipient' = profitRecipient

\* C38: only the owner can start a settlement and only the pool can drive
\* it: executeArbitrage called by another account reverts, executeOperation
\* called by anyone but the pool reverts with every balance, allowance and
\* the recipient unchanged, and every settlement that starts is the loan
\* the contract itself asked for in the owner's executeArbitrage.
C38_OwnerStartsPoolDrives ==
    /\ [][\A asset \in Tokens, amount \in 1..MaxAmount, premium \in 0..MaxAmount,
             recipient \in Recipients :
             ExecuteArbitrageCall(Other, asset, amount, premium, recipient) =>
                 (pcS' = "Reverted" /\ LedgerUnchanged)]_vars
    /\ [][\A caller \in Callers :
             DirectCallback(caller) => (pcS' = "Reverted" /\ LedgerUnchanged)]_vars
    /\ [][(pcS # "Borrowed" /\ pcS' = "Borrowed") => loan'.initiator = This]_vars

\* C39: profitRecipient is never the zero address: it is the deployer after
\* construction and stays non-zero through every setProfitRecipient call,
\* which rejects the zero address, and every settlement, reverted or not.
C39_RecipientNeverZero ==
    /\ profitRecipient # ZeroAddress
    /\ pre.profitRecipient # ZeroAddress
    /\ (trace = <<>> => profitRecipient = Owner)

\* The owner's attempt to set the zero address has been rejected after
\* another recipient had been set
C39_Witness ==
    /\ pcS = "Reverted"
    /\ reason = "Cannot set zero address"
    /\ profitRecipient = Other

(***************************************************************************)
(* Claims about the errors of executeArbitrage (BotSpec).                  *)
(***************************************************************************)

\* A transaction of the call has been confirmed
SomeConfirmed(ts) == \E i \in 1..Len(ts) : ts[i].status = "confirmed"

\* C40: whatever remote call of executeArbitrage fails, the call ends by
\* returning a boolean, which is false unless a transaction of the call was
\* confirmed; no failure leaves the call as an exception, and the scan goes
\* on with the next pair of the same cycle, or ends the cycle after the
\* last pair.
C40_FailuresStayInside ==
    /\ [][(pcB \in InCall /\ pcB' \notin InCall) =>
              /\ pcB' = "Returned"
              /\ result' \in {"true", "false"}
              /\ ~SomeConfirmed(txs') => result' = "false"]_vars
    /\ [][(pcB = "Returned" /\ pcB' # pcB) =>
              /\ executed' = executed
              /\ IF pairIdx < Len(TOKEN_PAIRS)
                 THEN pcB' = "Fetch" /\ pairIdx' = pairIdx + 1 /\ srcIdx' = 1
                 ELSE pcB' = "Sleep"]_vars

\* The leg-2 quote of the second pair failed, the call returned false and
\* the scan is about to go on
C40_Witness ==
    /\ pcB = "Returned"
    /\ result = "false"
    /\ pairIdx = 2
    /\ Len(log) > 0
    /\ log[Len(log)] = "quote2"
    /\ quoted.out2 = 0

\* Both submissions of a call failed and the call returned false
C40_WitnessSubmissions ==
    /\ pcB = "Returned"
    /\ result = "false"
    /\ Len(txs) = 2
    /\ ~SomeConfirmed(txs)

====
